---- MODULE Spec2Model ----
(***************************************************************************)
(* KithLy gift-delivery payment protocol: the Global_Gifts status          *)
(* lifecycle (02_core_logic orchestrator + db_connector, the StateMachine, *)
(* the 02_engine re-routing engine and Baker's protocol), the idempotency  *)
(* guard and the ingestion drainer.                                        *)
(*                                                                         *)
(* Specifications:                                                         *)
(*   Spec       the transaction lifecycle: every status-writing operation  *)
(*              of the three code bases acting on one Global_Gifts table   *)
(*   SpecWatch  two escalation watchdog workers holding Transaction        *)
(*              structs of one row                                         *)
(*   SpecSM     one (tx_id, target_status, expected_version) submitted     *)
(*              twice to StateMachine::process_transition                  *)
(*   SpecGuard  concurrent drainer workers in with_idempotency             *)
(*   SpecDrain  the drainer's process_gift_job                             *)
(*   SpecLadder the fulfilment watchdog ticking against the system clock   *)
(*   SpecEscrow the escrow watchdog against the system clock               *)
(*   SpecPay    the payment webhook delivered repeatedly                   *)
(*   SpecToken  generate_handshake_token, character by character           *)
(*   SpecRun    KithLyWorker::run and the signal handler, statement by      *)
(*              statement; SpecRunLive adds the scheduling of the worker   *)
(*   SpecReroute the event loop handing Order structs to process_order     *)
(*   SpecSearch find_alternative over Shops tables                         *)
(*   SpecLock   shadow_lock_inventory against an advancing clock           *)
(*   SpecAssign process_transition to ASSIGNED, one repository call at a   *)
(*              time, beside the other writers of the row                  *)
(*   SpecMutex  with_idempotency statement by statement, with cache_mutex_ *)
(***************************************************************************)
EXTENDS Integers, Sequences, FiniteSets, TLC

(***************************************************************************)
(* Status codes.                                                           *)
(***************************************************************************)
INITIATED == 100
ALT_FOUND == 106
AWAITING_SHOP_ACCEPTANCE == 110
AGENT_INITIATED == 150
FUNDS_LOCKED == 200
SETTLED == 250
FULFILLING == 300
FORCE_CALL_PENDING == 305
REROUTING == 315
KEY_VERIFIED == 350
COMPLETED == 400
HELD_FOR_REVIEW == 800
EXPIRED == 900
DECLINED == 910

StatusCodes ==
    { INITIATED, ALT_FOUND, AWAITING_SHOP_ACCEPTANCE, AGENT_INITIATED,
      FUNDS_LOCKED, SETTLED, FULFILLING, FORCE_CALL_PENDING, REROUTING,
      KEY_VERIFIED, COMPLETED, HELD_FOR_REVIEW, EXPIRED, DECLINED }

TerminalStatuses == { COMPLETED, HELD_FOR_REVIEW, EXPIRED }

\* Escalation thresholds (minutes).
FORCE_CALL_THRESHOLD_MINS == 5
REROUTE_THRESHOLD_MINS == 10
ESCROW_TIMEOUT_HOURS == 48

(***************************************************************************)
(* Bounds of the model.                                                    *)
(***************************************************************************)
\* process_transition is not started on a row whose version reached this.
MaxVersion == 2
MaxWallSteps == 34
MaxEscrowSteps == 12
MaxAcks == 2

(***************************************************************************)
(* The inputs.                                                             *)
(***************************************************************************)
\* Rows of Global_Gifts.
TxIds == { "T1" }
\* A tx_id no row has (rows_affected = 0).
UnknownTx == "T0"
CallTxIds == TxIds \cup { UnknownTx }
\* The shops a Baker's call names: S1 owns the row, S2 does not.
BakerShops == { "S1", "S2" }
\* ZRA VSDC result codes: the two that release the interlock, and others.
ZraCodes == { "000", "001", "999" }
\* The database statement of an engine operation that throws ("": none does).
EngineFailures == { "", "find", "lock", "update" }
\* Values of get_elapsed_minutes around the two thresholds.
ElapsedMins == { 5, 6, 10, 11 }
\* The escalation watchdog workers.
Watchdogs == { "w1", "w2" }
\* Acquirer payment references.
PaymentRefs == { "pi_1" }
\* Collection tokens.
Tokens == { "ABCD-2345", "WXYZ-6789" }
\* Product SKUs: SKU1 is off the shelf, SKU2 is made to order, SKU0 is not in Products.
Skus == { "SKU1", "SKU2", "SKU0" }
\* Decline reasons.
Reasons == { "busy" }

\* Idempotency keys.
Keys == { "K1", "K2" }
\* The drainer workers.
Drainers == { "d1", "d2" }

None == "none"
\* A worker that holds no payload, and one that has not returned.
NoPayload == [ tx_id |-> None, idempotency_key |-> None ]
NoRet == [ ok |-> FALSE, error |-> None, tx_id |-> None ]
\* A worker that holds no struct.
NoStruct == [ tx_id |-> None, status_code |-> 0, status_changed_at |-> 0 ]
BoolStr(b) == IF b THEN "true" ELSE "false"

VARIABLES
    gifts,        \* Global_Gifts: tx_id -> row (see GiftRow)
    fiscal_ok,    \* history: tx_id -> a completion call with resultCd 000/001 was made for it
    fiscal_held,  \* history: tx_id -> a completion call with another resultCd moved it 350 -> 800
    wd,           \* watchdog worker -> the Transaction struct it holds, or NoStruct
    es,           \* the escrow watchdog's EscrowTransaction struct, or NoStruct
    rr,           \* the re-route worker's Order struct, or NoOrder
    locks,        \* Inventory_Locks: set of << shop_id, tx_id >>
    last,         \* the last operation that returned: [op, tx, arg, ok, signal]
    wdcall,       \* history: watchdog worker -> what it scanned and what its call returned
    sm,           \* history: the triple submitted to process_transition and the results
    cache_,       \* IdempotencyGuard::cache_: key -> CacheEntry, or NoEntry
    reservations_,\* IdempotencyGuard::reservations_: key -> reserved-at time, or NotReserved
    now,          \* steady_clock::now(): [s: seconds, ticks: the advances so far]
    repo,         \* the rows the creators inserted: sequence of [tx_id, idempotency_key]
    gw,           \* drainer worker -> its position in with_idempotency
    queue,        \* the list kithly:ingestion:gifts (head is popped next)
    events,       \* the list kithly:events:escrow_locked
    processed,    \* history: the jobs process_gift_job was called with, in order, and
                  \* whether the event bus took pushes during the call
    wall,         \* system_clock::now(), seconds
    ladder,       \* history: when the row entered its status, and whether the database
                  \* took the last watchdog tick's update
    acks,         \* history: per payment reference, how many payment webhooks succeeded
    hs,           \* generate_handshake_token: position in the function and the token so far
    g_shutdown,   \* main.cpp: the global shutdown flag
    kw,           \* KithLyWorker::run: its position, the job it popped, its last sleep
                  \* (seconds), and the exit code of main once it returned
    bus,          \* the event bus as the next Redis call finds it
    shop_table,   \* the Shops table find_alternative queries
    search,       \* find_alternative: the order, whether it was called, what it returned
    inventory_locks, \* Inventory_Locks with its timestamps: sequence of rows
    lock_called,  \* history: << shop_id, tx_id >> -> when shadow_lock_inventory last
                  \* succeeded for the pair and how many times it did
    cache_mutex_, \* IdempotencyGuard::cache_mutex_: the workers holding it shared, and
                  \* the worker holding it exclusively (or None)
    rider_ids,    \* Global_Gifts.rider_id: tx_id -> the rider persisted for the row
    ha            \* a process_transition(tx_id, ASSIGNED, version, actor_id) call:
                  \* its position, the gift it read, its result

lifecycleVars == << gifts, fiscal_ok, fiscal_held, wd, es, rr, locks, last >>
watchVars == << wdcall >>
smVars == << sm >>
guardVars == << cache_, reservations_, now, repo, gw >>
drainVars == << queue, events, processed >>
clockVars == << wall, ladder >>
payVars == << acks >>
tokenVars == << hs >>
runVars == << g_shutdown, kw, bus >>
searchVars == << shop_table, search >>
lockVars == << inventory_locks, lock_called >>
mutexVars == << cache_mutex_ >>
assignVars == << rider_ids, ha >>

vars == << lifecycleVars, watchVars, smVars, guardVars, drainVars, clockVars, payVars,
          tokenVars, runVars, searchVars, lockVars, mutexVars, assignVars >>

\* What an operation returned, and the gateway hook it signalled ("" for none).
Ret(op, tx, arg, ok, signal) ==
    [ op |-> op, tx |-> tx, arg |-> arg, ok |-> ok, signal |-> IF ok THEN signal ELSE "" ]

(***************************************************************************)
(* db_connector.cpp                                                        *)
(***************************************************************************)
\* update_status returns true: db_ok (the connection is there and the
\* statement succeeds) and one row is affected.
update_status_ok(uuid, db_ok) == db_ok /\ uuid \in DOMAIN gifts

\* UPDATE Global_Gifts SET status_code = $1 WHERE tx_id = $2
update_status(uuid, new_status, db_ok) ==
    IF update_status_ok(uuid, db_ok)
    THEN [ gifts EXCEPT ![uuid].status_code = new_status ]
    ELSE gifts

(***************************************************************************)
(* 02_core_logic orchestrator.cpp: the webhook handlers                    *)
(***************************************************************************)
\* Handle Stripe webhook: -> 200 (FUNDS_LOCKED).
on_stripe_webhook_payment_confirmed(tx_id, payment_intent_id, db_ok) ==
    /\ gifts' = update_status(tx_id, FUNDS_LOCKED, db_ok)
    /\ last' = Ret("on_stripe_webhook_payment_confirmed", tx_id, payment_intent_id,
                   update_status_ok(tx_id, db_ok), "")
    /\ UNCHANGED << fiscal_ok, fiscal_held, wd, es, rr, locks >>

\* Handle Flutterwave webhook: -> 250 (SETTLED).
on_flutterwave_webhook_account_verified(tx_id, shop_id, db_ok) ==
    /\ gifts' = update_status(tx_id, SETTLED, db_ok)
    /\ last' = Ret("on_flutterwave_webhook_account_verified", tx_id, shop_id,
                   update_status_ok(tx_id, db_ok), "notify-shop")
    /\ UNCHANGED << fiscal_ok, fiscal_held, wd, es, rr, locks >>

\* ZRA fiscalization interlock: true only for resultCd 000 or 001.
can_complete_delivery(tx_id, zra_result_code) ==
    zra_result_code = "000" \/ zra_result_code = "001"

\* Mark delivery complete (-> 400), or hold for review (-> 800) if ZRA failed.
complete_delivery(tx_id, zra_result_code, db_ok) ==
    /\ IF ~can_complete_delivery(tx_id, zra_result_code)
       THEN /\ gifts' = update_status(tx_id, HELD_FOR_REVIEW, db_ok)
            /\ last' = Ret("complete_delivery", tx_id, zra_result_code, FALSE, "")
            /\ fiscal_held' =
                 IF update_status_ok(tx_id, db_ok) /\ gifts[tx_id].status_code = KEY_VERIFIED
                 THEN [ fiscal_held EXCEPT ![tx_id] = TRUE ]
                 ELSE fiscal_held
            /\ UNCHANGED fiscal_ok
       ELSE /\ gifts' = update_status(tx_id, COMPLETED, db_ok)
            /\ last' = Ret("complete_delivery", tx_id, zra_result_code,
                           update_status_ok(tx_id, db_ok), "")
            /\ fiscal_ok' = IF tx_id \in TxIds
                            THEN [ fiscal_ok EXCEPT ![tx_id] = TRUE ]
                            ELSE fiscal_ok
            /\ UNCHANGED fiscal_held
    /\ UNCHANGED << wd, es, rr, locks >>

\* Verify collection token and transition to KEY_VERIFIED (350).
verify_collection_token(tx_id, provided_token, expected_token, db_ok) ==
    /\ IF provided_token # expected_token
       THEN /\ UNCHANGED gifts
            /\ last' = Ret("verify_collection_token", tx_id, << provided_token, expected_token >>,
                           FALSE, "")
       ELSE /\ gifts' = update_status(tx_id, KEY_VERIFIED, db_ok)
            /\ last' = Ret("verify_collection_token", tx_id, << provided_token, expected_token >>,
                           update_status_ok(tx_id, db_ok), "trigger-zra")
    /\ UNCHANGED << fiscal_ok, fiscal_held, wd, es, rr, locks >>

(***************************************************************************)
(* 02_core_logic orchestrator.cpp: the fulfilment escalation watchdog      *)
(***************************************************************************)
\* The Transaction struct a scan builds from row t.
TransactionOf(t) ==
    [ tx_id |-> t, status_code |-> gifts[t].status_code,
      status_changed_at |-> gifts[t].status_changed_at ]

\* Elapsed whole minutes since the struct's status change (duration_cast truncates).
get_elapsed_minutes(tx) == (wall - tx.status_changed_at) \div 60

\* The new status code, or 0 if no escalation is needed.
\* A ladder with the two thresholds taken from each other's rung.
check_for_escalation_swapped(status_code, elapsed_mins) ==
    IF status_code = FULFILLING /\ elapsed_mins > REROUTE_THRESHOLD_MINS
    THEN FORCE_CALL_PENDING
    ELSE IF status_code = FORCE_CALL_PENDING /\ elapsed_mins > FORCE_CALL_THRESHOLD_MINS
    THEN REROUTING
    ELSE 0

check_for_escalation(status_code, elapsed_mins) ==
    IF status_code = FULFILLING /\ elapsed_mins > FORCE_CALL_THRESHOLD_MINS
    THEN FORCE_CALL_PENDING
    ELSE IF status_code = FORCE_CALL_PENDING /\ elapsed_mins > REROUTE_THRESHOLD_MINS
    THEN REROUTING
    ELSE 0

\* process_escalation returns true: an escalation is due and the update succeeded.
process_escalation_ok(tx, elapsed_mins, db_ok) ==
    /\ check_for_escalation(tx.status_code, elapsed_mins) # 0
    /\ update_status_ok(tx.tx_id, db_ok)

\* The caller's struct after process_escalation(tx).
process_escalation_struct(tx, elapsed_mins, db_ok) ==
    IF process_escalation_ok(tx, elapsed_mins, db_ok)
    THEN [ tx EXCEPT !.status_code = check_for_escalation(tx.status_code, elapsed_mins),
                     !.status_changed_at = wall ]
    ELSE tx

\* The force-call gateway hook fires.
process_escalation_force_call(tx, elapsed_mins, db_ok) ==
    /\ process_escalation_ok(tx, elapsed_mins, db_ok)
    /\ check_for_escalation(tx.status_code, elapsed_mins) = FORCE_CALL_PENDING

\* process_escalation(tx): the table, the signals and the return value;
\* elapsed_mins is what get_elapsed_minutes(tx) returns at the call.
process_escalation(tx, elapsed_mins, db_ok, who) ==
    /\ gifts' = IF process_escalation_ok(tx, elapsed_mins, db_ok)
                THEN update_status(tx.tx_id,
                                   check_for_escalation(tx.status_code, elapsed_mins),
                                   db_ok)
                ELSE gifts
    /\ last' = Ret("process_escalation", tx.tx_id, who,
                   process_escalation_ok(tx, elapsed_mins, db_ok),
                   IF process_escalation_force_call(tx, elapsed_mins, db_ok)
                   THEN "force-call" ELSE "")

\* One watchdog tick on row t: scan, then process_escalation on the fresh struct.
watchdog_tick(t, elapsed_mins, db_ok) ==
    /\ process_escalation(TransactionOf(t), elapsed_mins, db_ok, "tick")
    /\ UNCHANGED << fiscal_ok, fiscal_held, wd, es, rr, locks >>

(***************************************************************************)
(* 02_core_logic orchestrator.cpp: the 48-hour escrow watchdog             *)
(***************************************************************************)
\* status == 200 (LOCKED) and now() > expiry_timestamp.
is_escrow_expired(status_code, past_expiry) ==
    IF status_code # FUNDS_LOCKED THEN FALSE ELSE past_expiry

process_expired_escrow_ok(tx, past_expiry, db_ok) ==
    /\ is_escrow_expired(tx.status_code, past_expiry)
    /\ update_status_ok(tx.tx_id, db_ok)

\* The caller's struct after process_expired_escrow(tx).
process_expired_escrow_struct(tx, past_expiry, db_ok) ==
    IF process_expired_escrow_ok(tx, past_expiry, db_ok)
    THEN [ tx EXCEPT !.status_code = EXPIRED ]
    ELSE tx

\* process_expired_escrow(tx): the table, the refund signal and the return
\* value; past_expiry is now() > tx.expiry_timestamp at the call.
process_expired_escrow(tx, past_expiry, db_ok) ==
    /\ gifts' = IF process_expired_escrow_ok(tx, past_expiry, db_ok)
                THEN update_status(tx.tx_id, EXPIRED, db_ok)
                ELSE gifts
    /\ last' = Ret("process_expired_escrow", tx.tx_id, BoolStr(past_expiry),
                   process_expired_escrow_ok(tx, past_expiry, db_ok), "refund")

\* One pass of the escrow scan over row t: read it, then process_expired_escrow.
escrow_tick(t, past_expiry, db_ok) ==
    /\ process_expired_escrow(TransactionOf(t), past_expiry, db_ok)
    /\ UNCHANGED << fiscal_ok, fiscal_held, wd, es, rr, locks >>

\* run_escrow_watchdog(): prints "Starting scan" and "Scan complete"; the query
\* and the per-row call between them are not written.
run_escrow_watchdog ==
    /\ last' = Ret("run_escrow_watchdog", None, "", TRUE, "")
    /\ UNCHANGED << gifts, fiscal_ok, fiscal_held, wd, es, rr, locks >>

(***************************************************************************)
(* 02_engine orchestrator.cpp: the re-routing engine                       *)
(***************************************************************************)
\* Search radius, km.
SEARCH_RADIUS_KM == 5
\* process_order's original distance, in tenths of a km (2.5 km).
OriginalDistanceKm10 == 25

\* The Shops table, read-only here. distance_km10 is ST_Distance from the
\* recipient in tenths of a km, performance_score is in hundredths.
ShopRow(cat, approved, verified, dist, score) ==
    [ category_id |-> cat, admin_approval_status |-> approved, is_verified |-> verified,
      distance_km10 |-> dist, performance_score |-> score ]

Shops ==
    ( "S1" :> ShopRow("flowers", "approved", TRUE, 25, 80) ) @@
    ( "S2" :> ShopRow("flowers", "approved", TRUE, 12, 90) ) @@
    ( "S3" :> ShopRow("flowers", "approved", TRUE, 34, 95) ) @@
    ( "S4" :> ShopRow("flowers", "approved", TRUE, 61, 100) ) @@
    ( "S5" :> ShopRow("cakes", "approved", TRUE, 10, 100) ) @@
    ( "S6" :> ShopRow("flowers", "pending", TRUE, 10, 100) ) @@
    ( "S7" :> ShopRow("flowers", "approved", FALSE, 10, 100) )

\* The Order struct built from row t.
OrderOf(t) ==
    [ tx_id |-> t, shop_id |-> gifts[t].shop_id, category_id |-> gifts[t].category_id,
      status_code |-> gifts[t].status_code, auto_reroute |-> gifts[t].auto_reroute ]

NoOrder ==
    [ tx_id |-> None, shop_id |-> None, category_id |-> None,
      status_code |-> 0, auto_reroute |-> FALSE ]

\* The WHERE clause of build_proximity_query.
ProximityCandidates(shops, category_id, exclude_shop_id) ==
    { s \in DOMAIN shops :
        /\ shops[s].category_id = category_id
        /\ s # exclude_shop_id
        /\ shops[s].admin_approval_status = "approved"
        /\ shops[s].is_verified = TRUE
        /\ shops[s].distance_km10 <= SEARCH_RADIUS_KM * 10 }

\* The query with ORDER BY distance_km ASC, performance_score DESC.
build_proximity_query_nearest_first(shops, category_id, exclude_shop_id) ==
    LET cand == ProximityCandidates(shops, category_id, exclude_shop_id)
    IN { s \in cand :
           \A o \in cand :
              \/ shops[s].distance_km10 < shops[o].distance_km10
              \/ /\ shops[s].distance_km10 = shops[o].distance_km10
                 /\ shops[s].performance_score >= shops[o].performance_score }

\* ORDER BY performance_score DESC, distance_km ASC LIMIT 1: the rows that may come first.
build_proximity_query(shops, category_id, exclude_shop_id) ==
    LET cand == ProximityCandidates(shops, category_id, exclude_shop_id)
    IN { s \in cand :
           \A o \in cand :
              \/ shops[s].performance_score > shops[o].performance_score
              \/ /\ shops[s].performance_score = shops[o].performance_score
                 /\ shops[s].distance_km10 <= shops[o].distance_km10 }

NotFound == [ found |-> FALSE, alternative_shop_id |-> "", distance_diff_km10 |-> 0 ]

\* The RerouteResults find_alternative may return; the query throws when ~db_ok.
find_alternative(shops, order, original_distance_km10, db_ok) ==
    LET rows == build_proximity_query(shops, order.category_id, order.shop_id)
    IN IF ~db_ok \/ rows = {}
       THEN { NotFound }
       ELSE { [ found |-> TRUE, alternative_shop_id |-> s,
                distance_diff_km10 |-> shops[s].distance_km10 - original_distance_km10 ]
              : s \in rows }

\* No rider is persisted and no assignment was requested.
NoAssign == [ pc |-> "idle", tx_id |-> None, version |-> 0, rider_id |-> "",
              ok |-> FALSE, error |-> "" ]
AssignIdle == rider_ids = [ t \in TxIds |-> "" ] /\ ha = NoAssign

\* Nobody holds cache_mutex_.
MutexIdle == cache_mutex_ = [ shared |-> {}, unique |-> None ]

\* The pairs shadow_lock_inventory is called with.
LockPairs == { "S2", "S3" } \X { "T1" }
\* Inventory_Locks is empty, shadow_lock_inventory was never called.
LockIdle ==
    /\ inventory_locks = << >>
    /\ lock_called = [ p \in LockPairs |-> [ at |-> 0, n |-> 0 ] ]

\* No search under way: the Shops table as listed, find_alternative not called.
SearchIdle ==
    /\ shop_table = Shops
    /\ search = [ order |-> NoOrder, done |-> FALSE, db_ok |-> FALSE, result |-> NotFound ]

\* INSERT INTO Inventory_Locks ... ON CONFLICT (shop_id, tx_id) DO UPDATE.
shadow_lock_inventory(alternative_shop_id, tx_id) ==
    locks \cup { << alternative_shop_id, tx_id >> }

\* (diff >= 0 ? "+" : "") + std::to_string(diff) + "km"
DistanceDiffText(distance_diff_km10) ==
    << IF distance_diff_km10 >= 0 THEN "+" ELSE "", distance_diff_km10, "km" >>

\* UPDATE Global_Gifts SET status_code = 106, alternative_shop_id, re_route_distance_diff
\* WHERE tx_id = $4.
update_order_reroute(tx_id, result) ==
    IF tx_id \in DOMAIN gifts
    THEN [ gifts EXCEPT ![tx_id].status_code = ALT_FOUND,
                        ![tx_id].alternative_shop_id = result.alternative_shop_id,
                        ![tx_id].re_route_distance_diff =
                            DistanceDiffText(result.distance_diff_km10) ]
    ELSE gifts

\* process_order that re-routes every declined order, whatever its
\* auto_reroute flag.
process_order_any_declined(order, fail_at) ==
    /\ IF order.status_code = DECLINED
       THEN \E result \in find_alternative(Shops, order, OriginalDistanceKm10,
                                            fail_at # "find") :
              IF result.found /\ fail_at # "lock"
              THEN /\ locks' = shadow_lock_inventory(result.alternative_shop_id, order.tx_id)
                   /\ gifts' = IF fail_at # "update"
                               THEN update_order_reroute(order.tx_id, result)
                               ELSE gifts
              ELSE UNCHANGED << gifts, locks >>
       ELSE UNCHANGED << gifts, locks >>
    /\ last' = Ret("process_order", order.tx_id, "", TRUE, "")

\* Orchestrator::process_order(order); fail_at names the database statement
\* that throws, if any.
process_order(order, fail_at) ==
    /\ IF order.status_code = DECLINED /\ order.auto_reroute
       THEN \E result \in find_alternative(Shops, order, OriginalDistanceKm10,
                                            fail_at # "find") :
              IF result.found /\ fail_at # "lock"
              THEN /\ locks' = shadow_lock_inventory(result.alternative_shop_id, order.tx_id)
                   /\ gifts' = IF fail_at # "update"
                               THEN update_order_reroute(order.tx_id, result)
                               ELSE gifts
              ELSE UNCHANGED << gifts, locks >>
       ELSE UNCHANGED << gifts, locks >>
    /\ last' = Ret("process_order", order.tx_id, "", TRUE, "")

\* process_order on the Order read from row t just now.
process_order_row(t, fail_at) ==
    /\ process_order(OrderOf(t), fail_at)
    /\ UNCHANGED << fiscal_ok, fiscal_held, wd, es, rr >>

(***************************************************************************)
(* 02_engine orchestrator.cpp: Baker's protocol                            *)
(***************************************************************************)
\* Products.is_made_to_order by sku_id.
Products == ( "SKU1" :> FALSE ) @@ ( "SKU2" :> TRUE )

\* SELECT is_made_to_order FROM Products WHERE sku_id = $1; false on no row or error.
requires_acceptance(product_id, db_ok) ==
    IF db_ok /\ product_id \in DOMAIN Products THEN Products[product_id] ELSE FALSE

\* UPDATE Global_Gifts SET status_code = 110, acceptance_deadline WHERE tx_id = $2.
set_awaiting_acceptance_rows(tx_id, db_ok) ==
    IF db_ok /\ tx_id \in DOMAIN gifts
    THEN [ gifts EXCEPT ![tx_id].status_code = AWAITING_SHOP_ACCEPTANCE ]
    ELSE gifts

set_awaiting_acceptance(tx_id, db_ok) ==
    /\ gifts' = set_awaiting_acceptance_rows(tx_id, db_ok)
    /\ last' = Ret("set_awaiting_acceptance", tx_id, "", db_ok, "")
    /\ UNCHANGED << fiscal_ok, fiscal_held, wd, es, rr, locks >>

\* Orchestrator::handle_new_order(tx_id, product_id).
handle_new_order(tx_id, product_id, fail_at) ==
    /\ gifts' = IF requires_acceptance(product_id, fail_at # "find")
                THEN set_awaiting_acceptance_rows(tx_id, fail_at # "update")
                ELSE gifts
    /\ last' = Ret("handle_new_order", tx_id, product_id, TRUE, "")
    /\ UNCHANGED << fiscal_ok, fiscal_held, wd, es, rr, locks >>

\* The rows the WHERE tx_id = $2 AND shop_id = $3 clause selects.
BakerMatches(tx_id, shop_id) ==
    tx_id \in DOMAIN gifts /\ gifts[tx_id].shop_id = shop_id

\* UPDATE Global_Gifts SET status_code = 200, shop_accepted_at = NOW()
\* WHERE tx_id = $2 AND shop_id = $3.
shop_accepts_rows(tx_id, shop_id, db_ok) ==
    IF db_ok /\ BakerMatches(tx_id, shop_id)
    THEN [ gifts EXCEPT ![tx_id].status_code = FUNDS_LOCKED ]
    ELSE gifts

shop_accepts(tx_id, shop_id, db_ok) ==
    /\ gifts' = shop_accepts_rows(tx_id, shop_id, db_ok)
    /\ last' = Ret("shop_accepts", tx_id, shop_id, db_ok, "")
    /\ UNCHANGED << fiscal_ok, fiscal_held, wd, es, rr, locks >>

\* UPDATE Global_Gifts SET status_code = 910, decline_reason = $2, declined_at = NOW()
\* WHERE tx_id = $3 AND shop_id = $4.
shop_declines_rows(tx_id, shop_id, reason, db_ok) ==
    IF db_ok /\ BakerMatches(tx_id, shop_id)
    THEN [ gifts EXCEPT ![tx_id].status_code = DECLINED,
                        ![tx_id].decline_reason = reason ]
    ELSE gifts

shop_declines(tx_id, shop_id, reason, db_ok) ==
    /\ gifts' = shop_declines_rows(tx_id, shop_id, reason, db_ok)
    /\ last' = Ret("shop_declines", tx_id, shop_id, db_ok, "")
    /\ UNCHANGED << fiscal_ok, fiscal_held, wd, es, rr, locks >>

(***************************************************************************)
(* state_machine.cpp: StateMachine::process_transition over the            *)
(* repository layer (find_by_id, update_status with the version guard)     *)
(***************************************************************************)
\* The allowed transitions.
AllowedTransitions ==
    { << INITIATED, FUNDS_LOCKED >>, << AGENT_INITIATED, FUNDS_LOCKED >>,
      << AWAITING_SHOP_ACCEPTANCE, FUNDS_LOCKED >>, << AWAITING_SHOP_ACCEPTANCE, DECLINED >>,
      << FUNDS_LOCKED, SETTLED >>, << FUNDS_LOCKED, EXPIRED >>,
      << SETTLED, FULFILLING >>,
      << FULFILLING, FORCE_CALL_PENDING >>, << FORCE_CALL_PENDING, REROUTING >>,
      << FULFILLING, KEY_VERIFIED >>, << FORCE_CALL_PENDING, KEY_VERIFIED >>,
      << REROUTING, KEY_VERIFIED >>,
      << KEY_VERIFIED, COMPLETED >>, << KEY_VERIFIED, HELD_FOR_REVIEW >>,
      << DECLINED, ALT_FOUND >> }
    \cup { << s, EXPIRED >> : s \in StatusCodes \ TerminalStatuses }

is_valid_transition(from, to) == << from, to >> \in AllowedTransitions

\* The target statuses process_transition's switch has a case for.
HandledTargets == { p[2] : p \in AllowedTransitions }

\* GiftRepository::update_status(tx_id, new_status, expected_version) affects a row.
repo_update_status_ok(tx_id, expected_version) ==
    tx_id \in DOMAIN gifts /\ gifts[tx_id].version = expected_version

\* update ... where tx_id = $1 and version = $2 set status = $3, version = version + 1
repo_update_status(tx_id, new_status, expected_version) ==
    IF repo_update_status_ok(tx_id, expected_version)
    THEN [ gifts EXCEPT ![tx_id].status_code = new_status,
                        ![tx_id].version = @ + 1 ]
    ELSE gifts

\* handle_completed(gift) and the other status handlers: the repository update
\* with the version read by find_by_id.
handle_status(gift_tx_id, gift_version, target_status) ==
    repo_update_status(gift_tx_id, target_status, gift_version)

\* process_transition with the optimistic lock check moved before the
\* validation of the transition.
process_transition_error_version_first(tx_id, target_status, expected_version) ==
    IF tx_id \notin DOMAIN gifts
    THEN "Transaction not found"
    ELSE IF gifts[tx_id].version # expected_version
    THEN "Version mismatch"
    ELSE IF ~is_valid_transition(gifts[tx_id].status_code, target_status)
    THEN "Invalid transition"
    ELSE IF target_status \notin HandledTargets
    THEN "Unknown target status"
    ELSE ""

\* The failure process_transition returns, or "" when it reaches the update.
process_transition_error(tx_id, target_status, expected_version) ==
    IF tx_id \notin DOMAIN gifts
    THEN "Transaction not found"
    ELSE IF ~is_valid_transition(gifts[tx_id].status_code, target_status)
    THEN "Invalid transition"
    ELSE IF gifts[tx_id].version # expected_version
    THEN "Version mismatch"
    ELSE IF target_status \notin HandledTargets
    THEN "Unknown target status"
    ELSE ""

\* The table after process_transition(tx_id, target_status, expected_version).
process_transition_rows(tx_id, target_status, expected_version) ==
    IF process_transition_error(tx_id, target_status, expected_version) = ""
    THEN handle_status(tx_id, gifts[tx_id].version, target_status)
    ELSE gifts

process_transition(tx_id, target_status, expected_version) ==
    /\ gifts' = process_transition_rows(tx_id, target_status, expected_version)
    /\ last' = Ret("process_transition", tx_id,
                   process_transition_error(tx_id, target_status, expected_version),
                   process_transition_error(tx_id, target_status, expected_version) = "", "")
    /\ UNCHANGED << fiscal_ok, fiscal_held, wd, es, rr, locks >>

(***************************************************************************)
(* The transaction lifecycle.                                              *)
(***************************************************************************)
\* A row of Global_Gifts as the gateway inserts it.
GiftRow(status, auto) ==
    [ status_code |-> status, version |-> 0, shop_id |-> "S1",
      category_id |-> "flowers", auto_reroute |-> auto,
      alternative_shop_id |-> "", re_route_distance_diff |-> << >>,
      decline_reason |-> "", status_changed_at |-> 0,
      expiry_timestamp |-> ESCROW_TIMEOUT_HOURS * 3600, stripe_payment_ref |-> "pi_1" ]

\* No watchdog worker has scanned, nothing was submitted, the guard is empty,
\* the lists are empty.
NoCall == [ seen_status |-> 0, seen_version |-> 0, done |-> FALSE, ok |-> FALSE, signal |-> "" ]
NoSubmission ==
    [ tx_id |-> None, target_status |-> 0, expected_version |-> 0,
      rets |-> << >>, single |-> << >> ]
NoEntry == [ present |-> FALSE, cached_at |-> 0, tx_id |-> None ]
NotReserved == -1
\* No commit of the key has returned.
NoCommit == [ at |-> 0, tx_id |-> None ]
\* committed_at: when this call's commit returned (history); after: the commit
\* of the call's key that had returned when the call was made (history).
IdleWorker ==
    [ pc |-> "idle", payload |-> NoPayload, ret |-> NoRet,
      committed_at |-> NotReserved, after |-> NoCommit ]

WatchIdle == wdcall = [ w \in Watchdogs |-> NoCall ]
SMIdle == sm = NoSubmission
GuardIdle ==
    /\ cache_ = [ k \in Keys |-> NoEntry ]
    /\ reservations_ = [ k \in Keys |-> NotReserved ]
    /\ now = [ s |-> 0, ticks |-> 0 ]
    /\ repo = << >>
    /\ gw = [ w \in Drainers |-> IdleWorker ]
DrainIdle ==
    /\ queue = << >>
    /\ events = << >>
    /\ processed = << >>
TokenIdle == hs = [ pc |-> "idle", token |-> << >> ]
\* No job in the worker's hands.
NoJob == [ kind |-> "none", tx_id |-> "", idempotency_key |-> "", receiver_phone |-> "",
           tx_ref |-> "" ]
\* run() has connected and stands at the head of the drain loop; no signal yet.
RunIdle ==
    /\ g_shutdown = FALSE
    /\ kw = [ pc |-> "while", job |-> NoJob, slept |-> 0, exit_code |-> << >> ]
    /\ bus = "up"
PayIdle == acks = [ r \in PaymentRefs |-> 0 ]
ClockIdle ==
    /\ wall = 0
    /\ ladder = [ since |-> 0,
                  tick |-> [ from |-> 0, waited |-> 0, age |-> 0, db_ok |-> FALSE ] ]

LifecycleInit ==
    /\ gifts \in [ TxIds -> { GiftRow(s, a) : s \in { INITIATED, AGENT_INITIATED },
                                              a \in BOOLEAN } ]
    /\ fiscal_ok = [ t \in TxIds |-> FALSE ]
    /\ fiscal_held = [ t \in TxIds |-> FALSE ]
    /\ wd = [ w \in Watchdogs |-> NoStruct ]
    /\ es = NoStruct
    /\ rr = NoOrder
    /\ locks = {}
    /\ last = Ret("", None, "", TRUE, "")

\* The lifecycle at rest: one row as inserted, nothing called.
LifecycleIdle ==
    /\ gifts = [ t \in TxIds |-> GiftRow(INITIATED, TRUE) ]
    /\ fiscal_ok = [ t \in TxIds |-> FALSE ]
    /\ fiscal_held = [ t \in TxIds |-> FALSE ]
    /\ wd = [ w \in Watchdogs |-> NoStruct ]
    /\ es = NoStruct
    /\ rr = NoOrder
    /\ locks = {}
    /\ last = Ret("", None, "", TRUE, "")

Init == LifecycleInit /\ WatchIdle /\ SMIdle /\ GuardIdle /\ DrainIdle /\ ClockIdle /\ PayIdle /\ TokenIdle /\ RunIdle /\ SearchIdle /\ LockIdle /\ MutexIdle /\ AssignIdle

\* What the lifecycle operations leave alone.
offLifecycle == << watchVars, smVars, guardVars, drainVars, clockVars, payVars, tokenVars, runVars, searchVars, lockVars, mutexVars, assignVars >>

Next ==
    \/ \E tx_id \in CallTxIds, ref \in PaymentRefs, db_ok \in BOOLEAN :
         on_stripe_webhook_payment_confirmed(tx_id, ref, db_ok) /\ UNCHANGED offLifecycle
    \/ \E tx_id \in TxIds, db_ok \in BOOLEAN :
         /\ on_flutterwave_webhook_account_verified(tx_id, gifts[tx_id].shop_id, db_ok)
         /\ UNCHANGED offLifecycle
    \/ \E tx_id \in TxIds, code \in ZraCodes, db_ok \in BOOLEAN :
         complete_delivery(tx_id, code, db_ok) /\ UNCHANGED offLifecycle
    \/ \E tx_id \in TxIds, provided \in Tokens, expected \in Tokens, db_ok \in BOOLEAN :
         verify_collection_token(tx_id, provided, expected, db_ok) /\ UNCHANGED offLifecycle
    \/ \E t \in TxIds, e \in ElapsedMins, db_ok \in BOOLEAN :
         watchdog_tick(t, e, db_ok) /\ UNCHANGED offLifecycle
    \/ \E t \in TxIds, past \in BOOLEAN, db_ok \in BOOLEAN :
         escrow_tick(t, past, db_ok) /\ UNCHANGED offLifecycle
    \/ \E t \in TxIds, fail_at \in EngineFailures :
         process_order_row(t, fail_at) /\ UNCHANGED offLifecycle
    \/ \E tx_id \in TxIds, db_ok \in BOOLEAN :
         set_awaiting_acceptance(tx_id, db_ok) /\ UNCHANGED offLifecycle
    \/ \E tx_id \in TxIds, sku \in Skus, fail_at \in { "", "find", "update" } :
         handle_new_order(tx_id, sku, fail_at) /\ UNCHANGED offLifecycle
    \/ \E tx_id \in TxIds, shop_id \in BakerShops, db_ok \in BOOLEAN :
         shop_accepts(tx_id, shop_id, db_ok) /\ UNCHANGED offLifecycle
    \/ \E tx_id \in TxIds, shop_id \in BakerShops, reason \in Reasons, db_ok \in BOOLEAN :
         shop_declines(tx_id, shop_id, reason, db_ok) /\ UNCHANGED offLifecycle
    \/ \E tx_id \in TxIds, target \in StatusCodes, v \in 0..MaxVersion :
         /\ gifts[tx_id].version < MaxVersion
         /\ process_transition(tx_id, target, v)
         /\ UNCHANGED offLifecycle
    \/ process_transition(UnknownTx, FUNDS_LOCKED, 0) /\ UNCHANGED offLifecycle

Spec == Init /\ [][Next]_vars

(***************************************************************************)
(* SpecWatch: two escalation watchdog workers over one row. Each scans the *)
(* stalled rows into a Transaction struct and later calls                  *)
(* process_escalation on the struct it holds, while the shop and the state *)
(* machine go on working on the row.                                       *)
(***************************************************************************)
\* The statuses the escalation scan selects.
StalledStatuses == { FULFILLING, FORCE_CALL_PENDING }

\* Worker w's scan returns row t: it holds the struct built from the row.
list_stalled(w, t) ==
    /\ gifts[t].status_code \in StalledStatuses
    /\ wd' = [ wd EXCEPT ![w] = TransactionOf(t) ]
    /\ wdcall' = [ wdcall EXCEPT ![w] =
                     [ seen_status |-> gifts[t].status_code,
                       seen_version |-> gifts[t].version,
                       done |-> FALSE, ok |-> FALSE, signal |-> "" ] ]
    /\ UNCHANGED << gifts, fiscal_ok, fiscal_held, es, rr, locks, last >>

\* Worker w calls process_escalation(tx) on the struct it holds.
escalate(w, elapsed_mins, db_ok) ==
    /\ wd[w].tx_id # None
    /\ ~wdcall[w].done
    /\ process_escalation(wd[w], elapsed_mins, db_ok, w)
    /\ wd' = [ wd EXCEPT ![w] = process_escalation_struct(wd[w], elapsed_mins, db_ok) ]
    /\ wdcall' = [ wdcall EXCEPT ![w].done = TRUE,
                                 ![w].ok = process_escalation_ok(wd[w], elapsed_mins, db_ok),
                                 ![w].signal = last'.signal ]
    /\ UNCHANGED << fiscal_ok, fiscal_held, es, rr, locks >>

WatchInit ==
    /\ gifts \in [ TxIds -> { GiftRow(SETTLED, a) : a \in BOOLEAN } ]
    /\ fiscal_ok = [ t \in TxIds |-> FALSE ]
    /\ fiscal_held = [ t \in TxIds |-> FALSE ]
    /\ wd = [ w \in Watchdogs |-> NoStruct ]
    /\ es = NoStruct
    /\ rr = NoOrder
    /\ locks = {}
    /\ last = Ret("", None, "", TRUE, "")
    /\ WatchIdle /\ SMIdle /\ GuardIdle /\ DrainIdle /\ ClockIdle /\ PayIdle /\ TokenIdle /\ RunIdle /\ SearchIdle /\ LockIdle /\ MutexIdle /\ AssignIdle

offWatch == << smVars, guardVars, drainVars, clockVars, payVars, tokenVars, runVars, searchVars, lockVars, mutexVars, assignVars >>

WatchNext ==
    \/ \E w \in Watchdogs, t \in TxIds : list_stalled(w, t) /\ UNCHANGED offWatch
    \/ \E w \in Watchdogs, e \in ElapsedMins, db_ok \in BOOLEAN :
         escalate(w, e, db_ok) /\ UNCHANGED offWatch
    \/ \E tx_id \in TxIds, token \in Tokens :
         verify_collection_token(tx_id, token, token, TRUE) /\ UNCHANGED offLifecycle
    \/ \E tx_id \in TxIds, target \in { FULFILLING, FORCE_CALL_PENDING, KEY_VERIFIED } :
         /\ gifts[tx_id].version < MaxVersion
         /\ process_transition(tx_id, target, gifts[tx_id].version)
         /\ UNCHANGED offLifecycle

SpecWatch == WatchInit /\ [][WatchNext]_vars

(***************************************************************************)
(* SpecLadder: the fulfilment watchdog against the system clock.  The row   *)
(* entered FULFILLING at time 0; the clock advances in scheduler intervals  *)
(* and each tick scans the row and calls process_escalation on the struct.  *)
(***************************************************************************)
\* The watchdog's fixed interval, seconds.
TickSecsLadder == 30

\* The scheduler sleeps one interval.
ladder_sleep ==
    /\ wall < MaxWallSteps * TickSecsLadder
    /\ wall' = wall + TickSecsLadder
    /\ UNCHANGED << lifecycleVars, ladder >>

\* One tick on row t: the scan builds the struct from the row, get_elapsed_minutes
\* measures it against the clock, process_escalation acts on it.
ladder_tick(t, db_ok) ==
    /\ gifts[t].status_code \in StalledStatuses
    /\ watchdog_tick(t, get_elapsed_minutes(TransactionOf(t)), db_ok)
    /\ ladder' = [ since |-> IF gifts'[t].status_code # gifts[t].status_code
                             THEN wall ELSE ladder.since,
                   tick |-> [ from |-> gifts[t].status_code,
                              waited |-> wall - ladder.since,
                              age |-> wall - gifts[t].status_changed_at,
                              db_ok |-> db_ok ] ]
    /\ UNCHANGED wall

LadderInit ==
    /\ gifts = [ t \in TxIds |-> GiftRow(FULFILLING, TRUE) ]
    /\ fiscal_ok = [ t \in TxIds |-> FALSE ]
    /\ fiscal_held = [ t \in TxIds |-> FALSE ]
    /\ wd = [ w \in Watchdogs |-> NoStruct ]
    /\ es = NoStruct
    /\ rr = NoOrder
    /\ locks = {}
    /\ last = Ret("", None, "", TRUE, "")
    /\ WatchIdle /\ SMIdle /\ GuardIdle /\ DrainIdle /\ ClockIdle /\ PayIdle /\ TokenIdle /\ RunIdle /\ SearchIdle /\ LockIdle /\ MutexIdle /\ AssignIdle

offLadder == << watchVars, smVars, guardVars, drainVars, payVars, tokenVars, runVars, searchVars, lockVars, mutexVars, assignVars >>

LadderNext ==
    \/ ladder_sleep /\ UNCHANGED offLadder
    \/ \E t \in TxIds, db_ok \in BOOLEAN :
         ladder_tick(t, db_ok) /\ UNCHANGED offLadder

SpecLadder == LadderInit /\ [][LadderNext]_vars

LadderRow == gifts[CHOOSE t \in TxIds : TRUE]

C12_EscalationSideEffects ==
    ladder.tick.from # 0 =>
        /\ (last.ok /\ ladder.tick.from = FULFILLING) => last.signal = "force-call"
        /\ (last.ok /\ ladder.tick.from = FORCE_CALL_PENDING) => last.signal = "reroute"
        /\ ~last.ok => last.signal = ""

(***************************************************************************)
(* SpecEscrow: the escrow watchdog against the system clock.  The row is    *)
(* at FUNDS_LOCKED with an expiry an hour in the past or a minute ahead.    *)
(***************************************************************************)
\* expiry_timestamp of the row relative to the start, seconds.
ExpiryOffsets == { -3600, 60 }

escrow_sleep ==
    /\ wall < MaxEscrowSteps * TickSecsLadder
    /\ wall' = wall + TickSecsLadder
    /\ UNCHANGED << lifecycleVars, ladder >>

\* process_expired_escrow on the struct of row t, against the clock.
escrow_process(t, db_ok) ==
    /\ escrow_tick(t, wall > gifts[t].expiry_timestamp, db_ok)
    /\ UNCHANGED clockVars

EscrowInit ==
    /\ \E x \in ExpiryOffsets :
         gifts = [ t \in TxIds |->
                     [ GiftRow(FUNDS_LOCKED, TRUE) EXCEPT !.expiry_timestamp = x ] ]
    /\ fiscal_ok = [ t \in TxIds |-> FALSE ]
    /\ fiscal_held = [ t \in TxIds |-> FALSE ]
    /\ wd = [ w \in Watchdogs |-> NoStruct ]
    /\ es = NoStruct
    /\ rr = NoOrder
    /\ locks = {}
    /\ last = Ret("", None, "", TRUE, "")
    /\ WatchIdle /\ SMIdle /\ GuardIdle /\ DrainIdle /\ ClockIdle /\ PayIdle /\ TokenIdle /\ RunIdle /\ SearchIdle /\ LockIdle /\ MutexIdle /\ AssignIdle

offEscrow == << watchVars, smVars, guardVars, drainVars, payVars, tokenVars, runVars, searchVars, lockVars, mutexVars, assignVars >>

EscrowNext ==
    \/ escrow_sleep /\ UNCHANGED offEscrow
    \/ run_escrow_watchdog /\ UNCHANGED clockVars /\ UNCHANGED offEscrow
    \/ \E t \in TxIds, db_ok \in BOOLEAN :
         escrow_process(t, db_ok) /\ UNCHANGED offEscrow

SpecEscrow == EscrowInit /\ [][EscrowNext]_vars

\* C13 (escrow expiry): one run of the escrow watchdog moves every row at 200
\* whose expiry_timestamp is before now to 900 and signals the refund for it;
\* every other row is left unchanged.
C13_EscrowExpiry ==
    [][ (last' = Ret("run_escrow_watchdog", None, "", TRUE, "") /\ wall' = wall) =>
          \A t \in TxIds :
             IF gifts[t].status_code = FUNDS_LOCKED /\ gifts[t].expiry_timestamp < wall
             THEN gifts'[t].status_code = EXPIRED /\ last'.signal = "refund"
             ELSE gifts'[t] = gifts[t] ]_vars

\* C10 (concurrent workers are safe): when two workers attempt to advance the
\* same row from the same observed status and version, at most one attempt
\* succeeds, so the row is advanced once and the side-effect (force-call) is
\* signalled once.
C10_ConcurrentWorkersSafe ==
    \A w1, w2 \in Watchdogs :
        ( /\ w1 # w2
          /\ wdcall[w1].done /\ wdcall[w2].done
          /\ wd[w1].tx_id = wd[w2].tx_id
          /\ wdcall[w1].seen_status = wdcall[w2].seen_status
          /\ wdcall[w1].seen_version = wdcall[w2].seen_version )
        => ( /\ ~(wdcall[w1].ok /\ wdcall[w2].ok)
             /\ ~(wdcall[w1].signal = "force-call" /\ wdcall[w2].signal = "force-call") )

\* C39 (escalation does not clobber progress): the watchdog changes a row only
\* when its persisted status at the moment of the update is 300 or 305; when
\* the row has moved on since the worker read it, process_escalation fails
\* and the row keeps its newer status.
C39_EscalationKeepsProgress ==
    [][ \A w \in Watchdogs :
          ( /\ wdcall'[w].done /\ ~wdcall[w].done
            /\ gifts[wd[w].tx_id].status_code \notin { FULFILLING, FORCE_CALL_PENDING } )
          => ( gifts' = gifts /\ ~wdcall'[w].ok ) ]_vars

(***************************************************************************)
(* SpecSM: a row is brought to some state of its lifecycle, then one       *)
(* (tx_id, target_status, expected_version) is submitted to                *)
(* StateMachine::process_transition twice, back to back.                   *)
(***************************************************************************)
\* The result of the process_transition call that just returned.
TransitionResult == [ ok |-> last'.ok, error |-> last'.arg ]

\* The first submission of the triple.
submit(tx_id, target_status, expected_version) ==
    /\ Len(sm.rets) = 0
    /\ process_transition(tx_id, target_status, expected_version)
    /\ sm' = [ tx_id |-> tx_id, target_status |-> target_status,
               expected_version |-> expected_version,
               rets |-> << TransitionResult >>,
               single |-> IF tx_id \in DOMAIN gifts THEN << gifts'[tx_id] >> ELSE << >> ]

\* The second submission of the same triple.
resubmit ==
    /\ Len(sm.rets) = 1
    /\ process_transition(sm.tx_id, sm.target_status, sm.expected_version)
    /\ sm' = [ sm EXCEPT !.rets = Append(@, TransitionResult) ]

SMInit == LifecycleInit /\ WatchIdle /\ SMIdle /\ GuardIdle /\ DrainIdle /\ ClockIdle /\ PayIdle /\ TokenIdle /\ RunIdle /\ SearchIdle /\ LockIdle /\ MutexIdle /\ AssignIdle

offSM == << watchVars, guardVars, drainVars, clockVars, payVars, tokenVars, runVars, searchVars, lockVars, mutexVars, assignVars >>

SMNext ==
    \/ \E tx_id \in TxIds, ref \in PaymentRefs :
         /\ Len(sm.rets) = 0
         /\ on_stripe_webhook_payment_confirmed(tx_id, ref, TRUE)
         /\ UNCHANGED offLifecycle
    \/ \E tx_id \in TxIds, token \in Tokens :
         /\ Len(sm.rets) = 0
         /\ verify_collection_token(tx_id, token, token, TRUE)
         /\ UNCHANGED offLifecycle
    \/ \E tx_id \in TxIds, target \in StatusCodes :
         /\ Len(sm.rets) = 0
         /\ gifts[tx_id].version < MaxVersion
         /\ process_transition(tx_id, target, gifts[tx_id].version)
         /\ UNCHANGED offLifecycle
    \/ \E tx_id \in CallTxIds, target \in StatusCodes, v \in 0..MaxVersion :
         submit(tx_id, target, v) /\ UNCHANGED offSM
    \/ resubmit /\ UNCHANGED offSM

SpecSM == SMInit /\ [][SMNext]_vars

\* The row the triple names, as a tuple (empty when no row has the tx_id).
SubmittedRow == IF sm.tx_id \in DOMAIN gifts THEN << gifts[sm.tx_id] >> ELSE << >>

CACHE_TTL == 86400
RESERVATION_TTL == 30

\* The clock advances at most this many times.
MaxTicks == 1
\* The steps of the clock, seconds: past a reservation's TTL, past the cache's.
TickSecs == { RESERVATION_TTL + 1, CACHE_TTL }

\* The payloads: G1 and G2 carry the same idempotency key.
Payloads ==
    { [ tx_id |-> "G1", idempotency_key |-> "K1" ],
      [ tx_id |-> "G2", idempotency_key |-> "K1" ],
      [ tx_id |-> "G3", idempotency_key |-> "K2" ] }
\* What create_func does: insert the row, fail, or throw.
CreateOutcomes == { "insert", "fail", "throw" }

KeyRows(k) == { i \in 1..Len(repo) : repo[i].idempotency_key = k }

\* The creator's insert without the unique index on idempotency_key.
repo_insert_no_unique_index(payload) ==
    IF \E i \in 1..Len(repo) : repo[i].tx_id = payload.tx_id
    THEN repo
    ELSE Append(repo, payload)

\* The creator's insert: tx_id is the primary key, idempotency_key is unique.
repo_insert(payload) ==
    IF \E i \in 1..Len(repo) :
           \/ repo[i].tx_id = payload.tx_id
           \/ repo[i].idempotency_key = payload.idempotency_key
    THEN repo
    ELSE Append(repo, payload)

\* find_by_idempotency_key: the tx_id of the row with the key, or None.
find_by_idempotency_key(k) ==
    IF KeyRows(k) = {} THEN None ELSE repo[CHOOSE i \in KeyRows(k) : TRUE].tx_id

\* cache_[key] = {tx, steady_clock::now()}
cache_transaction(cache, key, tx_id) ==
    [ cache EXCEPT ![key] = [ present |-> TRUE, cached_at |-> now.s, tx_id |-> tx_id ] ]

\* The hot path of check: the key is cached and the entry is younger than CACHE_TTL.
cache_hit(key) ==
    cache_[key].present /\ now.s - cache_[key].cached_at < CACHE_TTL

\* reservations_ without the entries older than RESERVATION_TTL.
cleanup_expired_reservations(reservations) ==
    [ k \in Keys |-> IF reservations[k] # NotReserved /\ now.s - reservations[k] > RESERVATION_TTL
                     THEN NotReserved
                     ELSE reservations[k] ]

\* A reserve that admits every caller.
reserve_fails_never(key) == FALSE

\* reserve(key) fails: the key is in reservations_.
reserve_fails(key) == reservations_[key] # NotReserved

\* reservations_ after a successful reserve(key).
reserve(key) ==
    cleanup_expired_reservations([ reservations_ EXCEPT ![key] = now.s ])

\* reservations_ after release(key), and after commit(key, tx).
release(key) == [ reservations_ EXCEPT ![key] = NotReserved ]

GuardRet(ok, error, tx_id) == [ ok |-> ok, error |-> error, tx_id |-> tx_id ]
KeyOf(w) == gw[w].payload.idempotency_key

\* Another worker is reading or writing cache_ when w writes it without the lock.
CacheRace(w) == \E o \in Drainers \ { w } : gw[o].pc \in { "check", "commit" }

\* Another worker is in check's cold path, about to write cache_ without the
\* lock, when w writes it in commit.
CommitRace(w) ==
    \E o \in Drainers \ { w } :
        /\ gw[o].pc = "check"
        /\ ~cache_hit(KeyOf(o))
        /\ find_by_idempotency_key(KeyOf(o)) # None

\* The workers whose commit of key has returned.
Committers(key) ==
    { o \in Drainers : /\ gw[o].pc = "done"
                       /\ gw[o].committed_at # NotReserved
                       /\ gw[o].payload.idempotency_key = key }
CommittedBefore(key) ==
    IF Committers(key) = {}
    THEN NoCommit
    ELSE [ at |-> gw[CHOOSE o \in Committers(key) : TRUE].committed_at,
           tx_id |-> gw[CHOOSE o \in Committers(key) : TRUE].ret.tx_id ]

\* A drainer worker calls with_idempotency(guard, key, create_func).
with_idempotency_call(w, payload) ==
    /\ gw[w].pc \in { "idle", "done" }
    /\ gw' = [ gw EXCEPT ![w] = [ pc |-> "check", payload |-> payload, ret |-> NoRet,
                                  committed_at |-> NotReserved,
                                  after |-> CommittedBefore(payload.idempotency_key) ] ]
    /\ UNCHANGED << cache_, reservations_, now, repo >>

\* 1. guard.check(key): the cache, then the database; a row found in the
\* database is cached without the lock, so a racing access may lose the write
\* or the entry.
with_idempotency_check(w, db_ok) ==
    /\ gw[w].pc = "check"
    /\ IF cache_hit(KeyOf(w))
       THEN /\ gw' = [ gw EXCEPT ![w].pc = "done",
                                 ![w].ret = GuardRet(TRUE, "", cache_[KeyOf(w)].tx_id) ]
            /\ UNCHANGED cache_
       ELSE IF ~db_ok
       THEN /\ gw' = [ gw EXCEPT ![w].pc = "done",
                                 ![w].ret = GuardRet(FALSE, "Database error", None) ]
            /\ UNCHANGED cache_
       ELSE IF find_by_idempotency_key(KeyOf(w)) # None
       THEN /\ gw' = [ gw EXCEPT ![w].pc = "done",
                                 ![w].ret = GuardRet(TRUE, "",
                                                     find_by_idempotency_key(KeyOf(w))) ]
            /\ cache_' \in
                 { cache_transaction(cache_, KeyOf(w), find_by_idempotency_key(KeyOf(w))) }
                 \cup ( IF CacheRace(w)
                        THEN { cache_, [ cache_ EXCEPT ![KeyOf(w)] = NoEntry ] }
                        ELSE {} )
       ELSE /\ gw' = [ gw EXCEPT ![w].pc = "reserve" ]
            /\ UNCHANGED cache_
    /\ UNCHANGED << reservations_, now, repo >>

\* 2. guard.reserve(key), then make_guard.
with_idempotency_reserve(w) ==
    /\ gw[w].pc = "reserve"
    /\ IF reserve_fails(KeyOf(w))
       THEN /\ gw' = [ gw EXCEPT ![w].pc = "done",
                                 ![w].ret = GuardRet(FALSE, "Key already reserved", None) ]
            /\ UNCHANGED reservations_
       ELSE /\ gw' = [ gw EXCEPT ![w].pc = "create" ]
            /\ reservations_' = reserve(KeyOf(w))
    /\ UNCHANGED << cache_, now, repo >>

\* 3. create_func(): on success the reservation is committed next, otherwise
\* the ReservationGuard's destructor releases it.
with_idempotency_create(w, outcome) ==
    /\ gw[w].pc = "create"
    /\ repo' = IF outcome = "insert" THEN repo_insert(gw[w].payload) ELSE repo
    /\ gw' = IF outcome = "insert" /\ repo' # repo
             THEN [ gw EXCEPT ![w].pc = "commit",
                              ![w].ret = GuardRet(TRUE, "", gw[w].payload.tx_id) ]
             ELSE [ gw EXCEPT ![w].pc = "release",
                              ![w].ret = GuardRet(FALSE,
                                                  IF outcome = "insert" THEN "duplicate key"
                                                  ELSE outcome, None) ]
    /\ UNCHANGED << cache_, reservations_, now >>

\* reservation.commit(tx): under the unique lock, erase the reservation and
\* cache the transaction; check's cold path writes cache_ without the lock,
\* so a write racing with this one may lose it or the entry.
with_idempotency_commit(w) ==
    /\ gw[w].pc = "commit"
    /\ reservations_' = release(KeyOf(w))
    /\ cache_' \in
         { cache_transaction(cache_, KeyOf(w), gw[w].ret.tx_id) }
         \cup ( IF CommitRace(w)
                THEN { cache_, [ cache_ EXCEPT ![KeyOf(w)] = NoEntry ] }
                ELSE {} )
    /\ gw' = [ gw EXCEPT ![w].pc = "done", ![w].committed_at = now.s ]
    /\ UNCHANGED << now, repo >>

\* ~ReservationGuard(): not committed, so release(key).
with_idempotency_release(w) ==
    /\ gw[w].pc = "release"
    /\ reservations_' = release(KeyOf(w))
    /\ gw' = [ gw EXCEPT ![w].pc = "done" ]
    /\ UNCHANGED << cache_, now, repo >>

\* The steady clock advances.
clock_tick(secs) ==
    /\ now.ticks < MaxTicks
    /\ now' = [ s |-> now.s + secs, ticks |-> now.ticks + 1 ]
    /\ UNCHANGED << cache_, reservations_, repo, gw >>

GuardInit == LifecycleIdle /\ WatchIdle /\ SMIdle /\ GuardIdle /\ DrainIdle /\ ClockIdle /\ PayIdle /\ TokenIdle /\ RunIdle /\ SearchIdle /\ LockIdle /\ MutexIdle /\ AssignIdle

offGuard == << lifecycleVars, watchVars, smVars, drainVars, clockVars, payVars, tokenVars, runVars, searchVars, lockVars, mutexVars, assignVars >>

GuardNext ==
    \/ \E w \in Drainers, p \in Payloads : with_idempotency_call(w, p) /\ UNCHANGED offGuard
    \/ \E w \in Drainers, db_ok \in BOOLEAN :
         with_idempotency_check(w, db_ok) /\ UNCHANGED offGuard
    \/ \E w \in Drainers : with_idempotency_reserve(w) /\ UNCHANGED offGuard
    \/ \E w \in Drainers, outcome \in CreateOutcomes :
         with_idempotency_create(w, outcome) /\ UNCHANGED offGuard
    \/ \E w \in Drainers : with_idempotency_commit(w) /\ UNCHANGED offGuard
    \/ \E w \in Drainers : with_idempotency_release(w) /\ UNCHANGED offGuard
    \/ \E secs \in TickSecs : clock_tick(secs) /\ UNCHANGED offGuard

SpecGuard == GuardInit /\ [][GuardNext]_vars

HeldByOther(w) ==
    /\ KeyOf(w) \in Keys
    /\ reservations_[KeyOf(w)] # NotReserved
    /\ now.s - reservations_[KeyOf(w)] <= RESERVATION_TTL
    /\ \E o \in Drainers \ { w } :
          /\ gw[o].pc \in { "create", "commit", "release" }
          /\ KeyOf(o) = KeyOf(w)

\* C21 as stated: a call that meets another worker's live reservation returns
\* a failure, at the check as well as at the reserve.
C21_ConflictAlwaysFails ==
    [][ \A w \in Drainers :
          (HeldByOther(w) /\ gw[w].pc \in { "check", "reserve" } /\ gw'[w].pc = "done")
          => ~gw'[w].ret.ok ]_vars

\* C21 (idempotency conflict is a soft failure), amended: a call whose reserve
\* meets another in-flight worker's live reservation returns the failure
\* "Key already reserved" without running the creator; a call whose check
\* already finds the other worker's row returns that transaction as a
\* duplicate; in both cases no row is inserted, the other worker's
\* reservation stays, and the worker is free to take the next job.
C21_SoftFailure ==
    [][ \A w \in Drainers :
          /\ (HeldByOther(w) /\ gw[w].pc = "reserve")
               => ( gw'[w].pc = "reserve"
                    \/ /\ gw'[w].pc = "done"
                       /\ gw'[w].ret = GuardRet(FALSE, "Key already reserved", None)
                       /\ repo' = repo
                       /\ reservations_' = reservations_ )
          /\ (HeldByOther(w) /\ gw[w].pc = "check" /\ gw'[w].pc = "done")
               => /\ repo' = repo
                  /\ reservations_' = reservations_
                  /\ gw'[w].ret.ok
                       => /\ find_by_idempotency_key(KeyOf(w)) # None
                          /\ gw'[w].ret.tx_id = find_by_idempotency_key(KeyOf(w)) ]_vars

\* A worker was refused while the other worker, still running the creator,
\* keeps its reservation.
C21_Witness ==
    \E w \in Drainers :
        /\ gw[w].pc = "done"
        /\ gw[w].ret.error = "Key already reserved"
        /\ HeldByOther(w)
        /\ \E o \in Drainers \ { w } : gw[o].pc = "create" /\ KeyOf(o) = KeyOf(w)

\* How worker w holds cache_mutex_ when its next step accesses cache_ or
\* reservations_: check's hot path reads under a shared_lock whose scope ends
\* before the repository call, and its cold path calls cache_transaction with
\* no lock; reserve, release and commit take a unique_lock.
cache_mutex_held(w) ==
    IF gw[w].pc = "check"
    THEN IF cache_hit(KeyOf(w)) THEN "shared" ELSE "none"
    ELSE IF gw[w].pc \in { "reserve", "commit", "release" } THEN "exclusive"
    ELSE "none"

\* C35 (cache locking discipline): every write to the idempotency cache and
\* the reservation map (the cache insertion after check's repository hit,
\* reserve, release, commit) is made by a worker holding the reader-writer
\* mutex exclusively, and no worker writes the cache while another worker is
\* at an access of it.
C35_CacheLockingDiscipline ==
    [][ \A w \in Drainers :
          ( /\ gw'[w] # gw[w]
            /\ gw[w].pc \in { "check", "reserve", "commit", "release" }
            /\ \/ cache_' # cache_
               \/ reservations_' # reservations_
               \/ ( /\ gw[w].pc = "check"
                    /\ ~cache_hit(KeyOf(w))
                    /\ gw'[w].pc = "done" /\ gw'[w].ret.ok ) )
          => cache_mutex_held(w) = "exclusive" ]_vars

\* C34 (reservation expiry): reserve(key) fails only when a reservation for
\* key exists and is not older than 30 seconds; when the existing reservation
\* is older than 30 seconds the call is admitted and records the current
\* time; and every reserve call removes all reservations older than 30
\* seconds.
C34_ReservationExpiry ==
    [][ \A w \in Drainers :
          ( gw[w].pc = "reserve" /\ gw'[w].pc # "reserve" )
          => LET k == KeyOf(w)
                 Expired(x) == /\ reservations_[x] # NotReserved
                               /\ now.s - reservations_[x] > 30
                 Live(x) == reservations_[x] # NotReserved /\ ~Expired(x)
             IN /\ gw'[w].pc = "done" => Live(k)
                /\ ~Live(k) => /\ gw'[w].pc = "create"
                               /\ reservations_'[k] = now.s
                /\ \A x \in Keys \ { k } : Expired(x) => reservations_'[x] = NotReserved
        ]_vars

\* C37 (reservation mutual exclusion): at most one worker is executing the
\* creator for a given idempotency key at any moment.
C37_ReservationMutualExclusion ==
    \A w, o \in Drainers :
        ( w # o /\ gw[w].pc = "create" /\ gw[o].pc = "create" )
        => KeyOf(w) # KeyOf(o)

\* C19 (no reservation leak): when with_idempotency returns, on any path, the
\* reservation the call placed for its key is no longer in reservations_; when
\* it returns the creator's success, the key is in the cache with the created
\* transaction.
C19_NoReservationLeak ==
    [][ \A w \in Drainers :
          (gw[w].pc # "done" /\ gw'[w].pc = "done") =>
             /\ gw[w].pc \in { "commit", "release" }
                  => reservations_'[KeyOf(w)] = NotReserved
             /\ gw[w].pc = "commit"
                  => /\ cache_'[KeyOf(w)].present
                     /\ cache_'[KeyOf(w)].tx_id = gw[w].ret.tx_id ]_vars

\* C20 (idempotency window): commit leaves the key not reserved and cached in
\* one step, and every check of the key made after the commit returned and
\* less than CACHE_TTL later returns duplicate = true with the committed
\* transaction.
C20_IdempotencyWindow ==
    [][ \A w \in Drainers :
          /\ (gw[w].pc = "commit" /\ gw'[w].pc = "done")
               => /\ reservations_'[KeyOf(w)] = NotReserved
                  /\ cache_'[KeyOf(w)].present
          /\ ( /\ gw[w].pc = "check" /\ gw'[w].pc # "check"
               /\ gw[w].after.tx_id # None
               /\ now.s - gw[w].after.at < CACHE_TTL )
               => /\ gw'[w].pc = "done"
                  /\ gw'[w].ret = GuardRet(TRUE, "", gw[w].after.tx_id) ]_vars

(***************************************************************************)
(* main.cpp and orchestrator.cpp: the ingestion drainer. The gateway       *)
(* pushes raw jobs on kithly:ingestion:gifts; KithLyWorker::run pops one   *)
(* and calls process_gift_job on it.                                       *)
(***************************************************************************)
\* The gateway pushes at most this many jobs.
MaxJobs == 3

\* A raw job whose JSON parses into a GiftPayload; tx_ref "" stands for a job
\* without the optional tx_ref.
GiftJob(tx_id, idempotency_key, tx_ref) ==
    [ kind |-> "gift", tx_id |-> tx_id, idempotency_key |-> idempotency_key,
      receiver_phone |-> "+260970000001", tx_ref |-> tx_ref ]
\* A raw job that is no JSON (parse_error), one whose fields have the wrong
\* types (type_error), and one that lacks a field of GiftPayload (out_of_range).
BadJob(kind) ==
    [ kind |-> kind, tx_id |-> "", idempotency_key |-> "", receiver_phone |-> "", tx_ref |-> "" ]

RawJobs ==
    { GiftJob("G1", "K1", "ref-1"), GiftJob("G3", "K2", ""),
      BadJob("parse_error"), BadJob("type_error"), BadJob("out_of_range") }

\* parsed_json.value("tx_ref", payload.tx_id)
TxRefOf(job) == IF job.tx_ref = "" THEN job.tx_id ELSE job.tx_ref

\* The escrow_locked event process_gift_job builds.
EscrowLockedEvent(job, hs_token) ==
    [ tx_ref |-> TxRefOf(job), receiver_phone |-> job.receiver_phone,
      handshake_code |-> hs_token ]

\* process_gift_job that pushes the event before it looks at the payload.
process_gift_job_events_unparsed(job, hs_token, redis_ok) ==
    IF redis_ok
    THEN << EscrowLockedEvent(job, hs_token) >> \o events
    ELSE events

\* The catch clause of process_gift_job that ends the call: json::parse_error,
\* json::type_error, std::exception (a missing field, a throwing lpush), or
\* "" when nothing is thrown.
process_gift_job_caught(job, redis_ok) ==
    IF job.kind \in { "parse_error", "type_error" } THEN job.kind
    ELSE IF job.kind = "out_of_range" THEN "exception"
    ELSE IF ~redis_ok THEN "exception"
    ELSE ""

\* kithly:events:escrow_locked after process_gift_job(raw_json, redis): a job
\* that parses is never taken for a duplicate (is_duplicate = false), no row
\* is inserted, and the event is pushed unless lpush throws.
process_gift_job_events(job, hs_token, redis_ok) ==
    IF job.kind = "gift" /\ redis_ok
    THEN << EscrowLockedEvent(job, hs_token) >> \o events
    ELSE events

\* The gateway pushes a job (LPUSH: the drainer pops from the other end).
lpush_job(job) ==
    /\ Len(queue) + Len(processed) < MaxJobs
    /\ queue' = Append(queue, job)
    /\ UNCHANGED << events, processed >>

\* One iteration of the drain loop: brpop, then process_gift_job.
drain(hs_token, redis_ok) ==
    /\ queue # << >>
    /\ queue' = Tail(queue)
    /\ events' = process_gift_job_events(Head(queue), hs_token, redis_ok)
    /\ processed' = Append(processed,
                           [ job |-> Head(queue), bus_up |-> redis_ok,
                             caught |-> process_gift_job_caught(Head(queue), redis_ok) ])

DrainInit == LifecycleIdle /\ WatchIdle /\ SMIdle /\ GuardIdle /\ DrainIdle /\ ClockIdle /\ PayIdle /\ TokenIdle /\ RunIdle /\ SearchIdle /\ LockIdle /\ MutexIdle /\ AssignIdle

offDrain == << lifecycleVars, watchVars, smVars, guardVars, clockVars, payVars, tokenVars, runVars, searchVars, lockVars, mutexVars, assignVars >>

DrainNext ==
    \/ \E job \in RawJobs : lpush_job(job) /\ UNCHANGED offDrain
    \/ \E hs_token \in Tokens, redis_ok \in BOOLEAN :
         drain(hs_token, redis_ok) /\ UNCHANGED offDrain

SpecDrain == DrainInit /\ [][DrainNext]_vars

\* The escrow_locked events pushed for a job.
EventsFor(job) == { i \in 1..Len(events) : events[i].tx_ref = TxRefOf(job) }

\* The jobs processed so far that parsed into a GiftPayload with the bus up.
Published == { i \in 1..Len(processed) :
                 processed[i].job.kind = "gift" /\ processed[i].bus_up }

\* C22 (malformed jobs are dropped): a popped job that is no valid JSON or does
\* not match the GiftPayload schema creates no row and pushes no escrow_locked
\* event (the events are exactly those of the well-formed jobs), its error is
\* caught inside process_gift_job, and the job is off the list.
C22_MalformedDropped ==
    /\ Len(events) = Cardinality(Published)
    /\ repo = << >>
    /\ \A i \in 1..Len(processed) :
          processed[i].job.kind # "gift"
          => /\ processed[i].caught \in { "parse_error", "type_error", "exception" }
             /\ EventsFor(processed[i].job) = {}

\* The drainer dropped a malformed job and then processed the next job,
\* whose event is on the bus.
C22_Witness ==
    \E i \in 1..Len(processed) :
        /\ i < Len(processed)
        /\ processed[i].job.kind # "gift"
        /\ (i + 1) \in Published
        /\ Len(events) = 1

\* C23 (escrow_locked emission): every escrow_locked event on the bus belongs
\* to a job that created a transaction row (tx_ref the job's tx_ref, or its
\* tx_id when it has none, and the job's receiver_phone), one event per created
\* row; no event is pushed for a job that created no row.
C23_EscrowLockedEmission ==
    /\ Len(events) = Len(repo)
    /\ \A i \in 1..Len(events) :
          \E p \in 1..Len(processed), k \in 1..Len(repo) :
              /\ repo[k].tx_id = processed[p].job.tx_id
              /\ events[i].tx_ref = TxRefOf(processed[p].job)
              /\ events[i].receiver_phone = processed[p].job.receiver_phone

\* C17 (token uniqueness among live transactions): any two distinct
\* transactions whose escrow is locked (status 200..350) carry different
\* handshake tokens; a colliding generated token is not given out.
C17_TokenUniqueness ==
    \A i, j \in 1..Len(events) :
        events[i].tx_ref # events[j].tx_ref
        => events[i].handshake_code # events[j].handshake_code

\* C2 (duplicate ingestion): when the same gift payload is processed twice
\* back to back by the drainer (the event bus taking pushes), exactly one
\* transaction row with its idempotency key exists afterwards and exactly one
\* escrow_locked event has been pushed for it.
C2_DuplicateIngestion ==
    \A i \in 1..Len(processed) :
        ( /\ i + 1 = Len(processed)
          /\ processed[i].job.kind = "gift"
          /\ processed[i + 1].job = processed[i].job
          /\ processed[i].bus_up /\ processed[i + 1].bus_up )
        => ( /\ Cardinality(KeyRows(processed[i].job.idempotency_key)) = 1
             /\ Cardinality(EventsFor(processed[i].job)) = 1 )

(***************************************************************************)
(* main.cpp: KithLyWorker::run, statement by statement, and the signal     *)
(* handler. The bus is "up", or the next Redis call of the worker meets a  *)
(* socket timeout ("timeout"), a lost connection ("down") or another       *)
(* exception ("fault").                                                    *)
(***************************************************************************)
BusStates == { "up", "timeout", "down", "fault" }

\* The jobs the gateway pushes while run() is followed: a well-formed one and
\* one that is no JSON.
RunJobs == { GiftJob("G1", "K1", "ref-1"), BadJob("parse_error") }

\* signal_handler: SIGINT or SIGTERM sets the flag.
signal_handler ==
    /\ ~g_shutdown
    /\ g_shutdown' = TRUE
    /\ UNCHANGED << kw, bus, drainVars >>

\* The bus goes wrong, or comes back.
bus_change(b) ==
    /\ bus # b
    /\ bus' = b
    /\ UNCHANGED << g_shutdown, kw, drainVars >>

\* run() without the catch-all clause: the exception leaves run() and main
\* returns 1.
run_caught_no_catch_all(b) ==
    IF b = "timeout" THEN "while"
    ELSE IF b = "down" THEN "sleep3"
    ELSE "thrown"

\* Where the catch clauses of the drain loop take the worker: TimeoutError
\* continues, sw::redis::Error sleeps 3 s and reconnects, any other
\* std::exception sleeps 1 s.
run_caught(b) ==
    IF b = "timeout" THEN "while"
    ELSE IF b = "down" THEN "sleep3"
    ELSE "sleep1"

\* while (!g_shutdown); after the loop run() returns and main returns 0.
run_while ==
    /\ kw.pc = "while"
    /\ kw' = IF g_shutdown
             THEN [ kw EXCEPT !.pc = "returned", !.exit_code = << 0 >> ]
             ELSE [ kw EXCEPT !.pc = "brpop" ]
    /\ UNCHANGED << g_shutdown, bus, drainVars >>

\* redis.brpop("kithly:ingestion:gifts", 0): blocks while the list is empty
\* and the bus is up; returns the job at the tail; throws when the bus is
\* not up (a timeout or a fault is over once thrown).
run_brpop ==
    /\ kw.pc = "brpop"
    /\ IF bus = "up"
       THEN /\ queue # << >>
            /\ queue' = Tail(queue)
            /\ kw' = [ kw EXCEPT !.pc = "process", !.job = Head(queue) ]
            /\ bus' = bus
       ELSE /\ queue' = queue
            /\ kw' = [ kw EXCEPT !.pc = run_caught(bus) ]
            /\ bus' = IF bus = "down" THEN bus ELSE "up"
    /\ UNCHANGED << g_shutdown, events, processed >>

\* process_gift_job(payload) inside the inner try block.
run_process(hs_token) ==
    /\ kw.pc = "process"
    /\ events' = process_gift_job_events(kw.job, hs_token, bus = "up")
    /\ processed' = Append(processed,
                           [ job |-> kw.job, bus_up |-> bus = "up",
                             caught |-> process_gift_job_caught(kw.job, bus = "up") ])
    /\ kw' = [ kw EXCEPT !.pc = "while", !.job = NoJob ]
    /\ UNCHANGED << g_shutdown, bus, queue >>

\* std::this_thread::sleep_for: 3 s before the reconnect, 1 s after another
\* exception.
run_sleep ==
    /\ kw.pc \in { "sleep3", "sleep1" }
    /\ kw' = IF kw.pc = "sleep3"
             THEN [ kw EXCEPT !.pc = "reconnect", !.slept = 3 ]
             ELSE [ kw EXCEPT !.pc = "while", !.slept = 1 ]
    /\ UNCHANGED << g_shutdown, bus, drainVars >>

\* redis = sw::redis::Redis(...): a failure is logged and swallowed.
run_reconnect ==
    /\ kw.pc = "reconnect"
    /\ kw' = [ kw EXCEPT !.pc = "while" ]
    /\ UNCHANGED << g_shutdown, bus, drainVars >>

RunInit == LifecycleIdle /\ WatchIdle /\ SMIdle /\ GuardIdle /\ DrainIdle /\ ClockIdle /\ PayIdle /\ TokenIdle /\ RunIdle /\ SearchIdle /\ LockIdle /\ MutexIdle /\ AssignIdle

offRun == << lifecycleVars, watchVars, smVars, guardVars, clockVars, payVars, tokenVars, searchVars, lockVars, mutexVars, assignVars >>

\* The steps of the worker thread.
RunWorker ==
    \/ run_while
    \/ run_brpop
    \/ \E hs_token \in Tokens : run_process(hs_token)
    \/ run_sleep
    \/ run_reconnect

RunNext ==
    \/ \E job \in RunJobs : lpush_job(job) /\ UNCHANGED runVars /\ UNCHANGED offRun
    \/ signal_handler /\ UNCHANGED offRun
    \/ \E b \in BusStates : bus_change(b) /\ UNCHANGED offRun
    \/ run_while /\ UNCHANGED offRun
    \/ run_brpop /\ UNCHANGED offRun
    \/ \E hs_token \in Tokens : run_process(hs_token) /\ UNCHANGED offRun
    \/ run_sleep /\ UNCHANGED offRun
    \/ run_reconnect /\ UNCHANGED offRun

SpecRun == RunInit /\ [][RunNext]_vars

\* The worker thread is scheduled: a step of run() that can be taken is
\* taken. Nothing obliges the gateway to push, the bus to change or a signal
\* to arrive.
SpecRunLive == SpecRun /\ WF_vars(RunWorker /\ UNCHANGED offRun)

\* C24 (the drainer never dies from an error): whatever jobs fail and
\* whatever the bus does, no exception leaves the drain loop; after a bus
\* error the worker sleeps 3 s and reconnects, after another exception it
\* sleeps 1 s, and it goes back to the loop test; run() returns only when the
\* shutdown flag is set.
C24_DrainerNeverDies ==
    [][ /\ kw'.pc # "thrown"
        /\ (kw'.pc = "returned" /\ kw.pc # "returned") => g_shutdown
        /\ (kw.pc = "brpop" /\ kw'.pc # "brpop")
             => \/ bus = "up" /\ kw'.pc = "process"
                \/ bus = "timeout" /\ kw'.pc = "while"
                \/ bus = "down" /\ kw'.pc = "sleep3"
                \/ bus = "fault" /\ kw'.pc = "sleep1"
        /\ (kw.pc = "process" /\ kw'.pc # "process") => kw'.pc = "while"
        /\ (kw.pc = "sleep3" /\ kw'.pc # "sleep3")
             => kw'.pc = "reconnect" /\ kw'.slept = 3
        /\ (kw.pc = "sleep1" /\ kw'.pc # "sleep1")
             => kw'.pc = "while" /\ kw'.slept = 1
        /\ (kw.pc = "reconnect" /\ kw'.pc # "reconnect") => kw'.pc = "while" ]_vars

\* After a lost connection and the 3 s sleep, and after a job whose push
\* failed, the worker is back in brpop with no shutdown requested.
C24_Witness ==
    /\ kw.pc = "brpop"
    /\ kw.slept = 3
    /\ ~g_shutdown
    /\ \E i \in 1..Len(processed) : processed[i].caught = "exception"

\* C25 (shutdown stops intake): once the shutdown flag is set the drainer pops
\* no further job, so a job arriving afterwards stays on the list, while the
\* job in the worker's hands is processed to the end.
C25_ShutdownStopsIntake ==
    [][ g_shutdown
        => /\ Len(queue') >= Len(queue)
           /\ (kw.pc = "process" /\ kw' # kw)
                => /\ kw'.pc = "while"
                   /\ Len(processed') = Len(processed) + 1 ]_vars

\* C26 (shutdown terminates): after the shutdown flag is set the drain loop
\* eventually exits and the process ends with exit code 0, even when no
\* further job arrives.
C26_ShutdownTerminates ==
    g_shutdown ~> (kw.pc = "returned" /\ kw.exit_code = << 0 >>)

(***************************************************************************)
(* SpecReroute: the re-routing engine at work on one row. The event loop    *)
(* builds an Order struct from the row and hands it to process_order, while *)
(* the shop declines and the state machine goes on working on the row.      *)
(***************************************************************************)
\* The categories of the orders: no shop sells books.
OrderCategories == { "flowers", "books" }

\* The event loop reads row t into the Order struct it will hand over.
read_order(t) ==
    /\ rr # OrderOf(t)
    /\ rr' = OrderOf(t)
    /\ UNCHANGED << gifts, fiscal_ok, fiscal_held, wd, es, locks, last >>

\* The event loop calls process_order(order) on the struct it holds.
process_order_held(fail_at) ==
    /\ rr.tx_id # None
    /\ process_order(rr, fail_at)
    /\ rr' = NoOrder
    /\ UNCHANGED << fiscal_ok, fiscal_held, wd, es >>

RerouteInit ==
    /\ gifts \in [ TxIds -> { [ GiftRow(s, a) EXCEPT !.category_id = c ] :
                                s \in { AWAITING_SHOP_ACCEPTANCE, FULFILLING },
                                a \in BOOLEAN, c \in OrderCategories } ]
    /\ fiscal_ok = [ t \in TxIds |-> FALSE ]
    /\ fiscal_held = [ t \in TxIds |-> FALSE ]
    /\ wd = [ w \in Watchdogs |-> NoStruct ]
    /\ es = NoStruct
    /\ rr = NoOrder
    /\ locks = {}
    /\ last = Ret("", None, "", TRUE, "")
    /\ WatchIdle /\ SMIdle /\ GuardIdle /\ DrainIdle /\ ClockIdle /\ PayIdle /\ TokenIdle /\ RunIdle /\ SearchIdle /\ LockIdle /\ MutexIdle /\ AssignIdle

RerouteNext ==
    \/ \E t \in TxIds : read_order(t) /\ UNCHANGED offLifecycle
    \/ \E fail_at \in EngineFailures : process_order_held(fail_at) /\ UNCHANGED offLifecycle
    \/ \E tx_id \in TxIds, reason \in Reasons, db_ok \in BOOLEAN :
         shop_declines(tx_id, gifts[tx_id].shop_id, reason, db_ok) /\ UNCHANGED offLifecycle
    \/ \E tx_id \in TxIds, target \in { DECLINED, ALT_FOUND, EXPIRED } :
         /\ gifts[tx_id].version < MaxVersion
         /\ process_transition(tx_id, target, gifts[tx_id].version)
         /\ UNCHANGED offLifecycle

SpecReroute == RerouteInit /\ [][RerouteNext]_vars

\* The step is a call of process_order on the struct the event loop holds.
ProcessOrderStep == rr.tx_id # None /\ rr' = NoOrder

\* C27 (re-route trigger): process_order creates an inventory lock or changes
\* the transaction only when the order handed to it has status 910 and its
\* auto_reroute flag set; for an order of any other status, or with
\* auto_reroute false, the rows and the locks are as they were.
C27_RerouteTrigger ==
    [][ ( /\ ProcessOrderStep
          /\ ~(rr.status_code = DECLINED /\ rr.auto_reroute) )
        => /\ gifts' = gifts
           /\ locks' = locks ]_vars

\* process_order has returned for a declined order without auto_reroute, and
\* for it no lock exists and the row is still at 910.
C27_Witness ==
    \E t \in TxIds :
        /\ last = Ret("process_order", t, "", TRUE, "")
        /\ rr = NoOrder
        /\ gifts[t].status_code = DECLINED
        /\ ~gifts[t].auto_reroute
        /\ gifts[t].category_id = "flowers"
        /\ locks = {}

\* C29 (shadow lock precedes ALT_FOUND): a row is moved to 106 with
\* alternative_shop_id = S only from status 910 and only when the inventory
\* lock (S, tx_id) has been created; when the lock is not created,
\* process_order leaves the row at 910 with no alternative shop set.
C29_LockPrecedesAltFound ==
    [][ \A t \in TxIds :
          /\ ( /\ gifts'[t].status_code = ALT_FOUND
               /\ gifts[t].status_code # ALT_FOUND
               /\ gifts'[t].alternative_shop_id # "" )
             => /\ gifts[t].status_code = DECLINED
                /\ << gifts'[t].alternative_shop_id, t >> \in locks'
          /\ ( /\ ProcessOrderStep /\ rr.tx_id = t
               /\ \A s \in DOMAIN Shops : << s, t >> \notin locks' )
             => gifts'[t] = gifts[t] ]_vars

\* C30 (re-route with no alternative): when process_order's search for a
\* declined auto_reroute order finds no eligible shop, a refund_requested
\* event is emitted for the transaction, no lock is created and the row
\* stays as it was, at 910.
C30_NoAlternativeRefund ==
    [][ ( /\ ProcessOrderStep
          /\ rr.status_code = DECLINED /\ rr.auto_reroute
          /\ ProximityCandidates(Shops, rr.category_id, rr.shop_id) = {} )
        => /\ last'.signal = "refund_requested"
           /\ locks' = locks
           /\ gifts' = gifts ]_vars

\* C31 (successful re-route outcome): after process_order found a shop S for
\* a declined auto_reroute order and created the lock (S, tx_id), the row has
\* status 106, alternative_shop_id = S and re_route_distance_diff = distance
\* of S minus the distance of the transaction's original shop, and a
\* reroute_notify event has been emitted for the transaction.
C31_RerouteOutcome ==
    [][ \A S \in DOMAIN Shops :
          ( /\ ProcessOrderStep
            /\ rr.status_code = DECLINED /\ rr.auto_reroute
            /\ << S, rr.tx_id >> \in locks' \ locks )
          => /\ gifts'[rr.tx_id].status_code = ALT_FOUND
             /\ gifts'[rr.tx_id].alternative_shop_id = S
             /\ gifts'[rr.tx_id].re_route_distance_diff
                  = DistanceDiffText(Shops[S].distance_km10
                                     - Shops[gifts[rr.tx_id].shop_id].distance_km10)
             /\ last'.signal = "reroute_notify" ]_vars

(***************************************************************************)
(* SpecLock: shadow_lock_inventory against the database clock. The table   *)
(* carries locked_at and expires_at; NOW() is the clock `wall`.            *)
(***************************************************************************)
\* INTERVAL '15 minutes', in seconds.
LOCK_INTERVAL_SECS == 900
\* The clock advances in steps of ten minutes, at most MaxLockSteps times;
\* a pair is locked at most MaxLockCalls times.
LockStepSecs == 600
MaxLockSteps == 3
MaxLockCalls == 3

InventoryLockRow(shop_id, tx_id, at) ==
    [ shop_id |-> shop_id, tx_id |-> tx_id, locked_at |-> at,
      expires_at |-> at + LOCK_INTERVAL_SECS ]

\* The INSERT without its ON CONFLICT clause, on a table without the unique
\* index: a second row for the pair.
shadow_lock_inventory_rows_plain_insert(rows, shop_id, tx_id, at) ==
    Append(rows, InventoryLockRow(shop_id, tx_id, at))

\* INSERT INTO Inventory_Locks (shop_id, tx_id, locked_at, expires_at)
\* VALUES ($1, $2, NOW(), NOW() + INTERVAL '15 minutes')
\* ON CONFLICT (shop_id, tx_id) DO UPDATE SET locked_at = NOW(),
\* expires_at = NOW() + INTERVAL '15 minutes'.
shadow_lock_inventory_rows(rows, shop_id, tx_id, at) ==
    IF \E i \in 1..Len(rows) : rows[i].shop_id = shop_id /\ rows[i].tx_id = tx_id
    THEN [ i \in 1..Len(rows) |->
             IF rows[i].shop_id = shop_id /\ rows[i].tx_id = tx_id
             THEN [ rows[i] EXCEPT !.locked_at = at,
                                   !.expires_at = at + LOCK_INTERVAL_SECS ]
             ELSE rows[i] ]
    ELSE Append(rows, InventoryLockRow(shop_id, tx_id, at))

\* shadow_lock_inventory(alternative_shop_id, tx_id): true after the commit,
\* false (and no change) when the statement throws.
shadow_lock_inventory_call(shop_id, tx_id, db_ok) ==
    /\ lock_called[<< shop_id, tx_id >>].n < MaxLockCalls
    /\ inventory_locks' = IF db_ok
                          THEN shadow_lock_inventory_rows(inventory_locks, shop_id, tx_id, wall)
                          ELSE inventory_locks
    /\ lock_called' = IF db_ok
                      THEN [ lock_called EXCEPT
                               ![<< shop_id, tx_id >>] = [ at |-> wall, n |-> @.n + 1 ] ]
                      ELSE lock_called
    /\ UNCHANGED clockVars

\* Time passes on the database server.
lock_sleep ==
    /\ wall < MaxLockSteps * LockStepSecs
    /\ wall' = wall + LockStepSecs
    /\ UNCHANGED << ladder, lockVars >>

LockInit ==
    /\ LifecycleIdle /\ WatchIdle /\ SMIdle /\ GuardIdle /\ DrainIdle /\ ClockIdle
    /\ PayIdle /\ TokenIdle /\ RunIdle /\ SearchIdle /\ LockIdle /\ MutexIdle /\ AssignIdle

offLock == << lifecycleVars, watchVars, smVars, guardVars, drainVars, payVars, tokenVars, runVars, searchVars, mutexVars, assignVars >>

LockNext ==
    \/ \E p \in LockPairs, db_ok \in BOOLEAN :
         shadow_lock_inventory_call(p[1], p[2], db_ok) /\ UNCHANGED offLock
    \/ lock_sleep /\ UNCHANGED offLock

SpecLock == LockInit /\ [][LockNext]_vars

\* C32 (inventory lock upsert): after any sequence of shadow_lock_inventory
\* calls there is at most one lock per (shop_id, tx_id) pair, every lock has
\* expires_at = locked_at + 15 minutes, and a pair locked again carries the
\* time of the latest successful call in both timestamps; a pair is locked
\* exactly when a call for it succeeded.
C32_InventoryLockUpsert ==
    /\ \A i, j \in 1..Len(inventory_locks) :
          ( /\ inventory_locks[i].shop_id = inventory_locks[j].shop_id
            /\ inventory_locks[i].tx_id = inventory_locks[j].tx_id ) => i = j
    /\ \A i \in 1..Len(inventory_locks) :
          /\ inventory_locks[i].expires_at = inventory_locks[i].locked_at + 15 * 60
          /\ inventory_locks[i].locked_at
               = lock_called[<< inventory_locks[i].shop_id, inventory_locks[i].tx_id >>].at
    /\ \A p \in LockPairs :
          lock_called[p].n > 0
          <=> \E i \in 1..Len(inventory_locks) :
                 inventory_locks[i].shop_id = p[1] /\ inventory_locks[i].tx_id = p[2]

\* A pair was locked, and locked again later, while another pair holds the
\* lock it got at first.
C32_Witness ==
    /\ Len(inventory_locks) = 2
    /\ inventory_locks[1].locked_at > 0
    /\ lock_called[<< inventory_locks[1].shop_id, inventory_locks[1].tx_id >>].n = 2
    /\ inventory_locks[2].locked_at = 0

(***************************************************************************)
(* SpecAssign: process_transition(tx_id, ASSIGNED, version, actor_id), one  *)
(* repository call at a time, beside the other writers of the row.          *)
(***************************************************************************)
\* GiftStatus::ASSIGNED, and the status a rider is assigned from (PAID).
ASSIGNED == 210
AssignedFrom == { FUNDS_LOCKED }
Riders == { "R1" }

\* process_transition to ASSIGNED up to the call of handle_rider_assigned:
\* find_by_id, the validation, the optimistic lock check, the actor check.
process_transition_assigned(tx_id, expected_version, actor_id) ==
    /\ ha.pc = "idle"
    /\ LET error == IF tx_id \notin DOMAIN gifts THEN "Transaction not found"
                    ELSE IF gifts[tx_id].status_code \notin AssignedFrom
                    THEN "Invalid transition"
                    ELSE IF gifts[tx_id].version # expected_version
                    THEN "Version mismatch"
                    ELSE IF actor_id = "" THEN "Rider ID required for assignment"
                    ELSE ""
       IN ha' = [ pc |-> IF error = "" THEN "assign_rider" ELSE "done",
                  tx_id |-> tx_id, version |-> expected_version, rider_id |-> actor_id,
                  ok |-> FALSE, error |-> error ]
    /\ UNCHANGED << lifecycleVars, rider_ids >>

\* handle_rider_assigned: gift_repo_->assign_rider(gift.tx_id, rider_id).
handle_rider_assigned_assign(db_ok) ==
    /\ ha.pc = "assign_rider"
    /\ IF db_ok
       THEN /\ rider_ids' = [ rider_ids EXCEPT ![ha.tx_id] = ha.rider_id ]
            /\ ha' = [ ha EXCEPT !.pc = "update_status" ]
       ELSE /\ rider_ids' = rider_ids
            /\ ha' = [ ha EXCEPT !.pc = "done", !.error = "Database error" ]
    /\ UNCHANGED lifecycleVars

\* handle_rider_assigned: gift_repo_->update_status(gift.tx_id, ASSIGNED,
\* gift.version), whose result process_transition returns.
handle_rider_assigned_update(db_ok) ==
    /\ ha.pc = "update_status"
    /\ IF db_ok /\ repo_update_status_ok(ha.tx_id, ha.version)
       THEN /\ gifts' = repo_update_status(ha.tx_id, ASSIGNED, ha.version)
            /\ ha' = [ ha EXCEPT !.pc = "done", !.ok = TRUE ]
       ELSE /\ gifts' = gifts
            /\ ha' = [ ha EXCEPT !.pc = "done",
                                 !.error = IF db_ok THEN "Version conflict"
                                           ELSE "Database error" ]
    /\ UNCHANGED << fiscal_ok, fiscal_held, wd, es, rr, locks, last, rider_ids >>

AssignInit ==
    /\ LifecycleInit /\ WatchIdle /\ SMIdle /\ GuardIdle /\ DrainIdle /\ ClockIdle
    /\ PayIdle /\ TokenIdle /\ RunIdle /\ SearchIdle /\ LockIdle /\ MutexIdle /\ AssignIdle

offAssign == << watchVars, smVars, guardVars, drainVars, clockVars, payVars, tokenVars, runVars, searchVars, lockVars, mutexVars >>

AssignNext ==
    \/ \E tx_id \in TxIds, ref \in PaymentRefs :
         /\ ha.pc # "done"
         /\ on_stripe_webhook_payment_confirmed(tx_id, ref, TRUE)
         /\ UNCHANGED offLifecycle
    \/ \E tx_id \in TxIds, target \in StatusCodes :
         /\ ha.pc # "done"
         /\ gifts[tx_id].version < MaxVersion
         /\ process_transition(tx_id, target, gifts[tx_id].version)
         /\ UNCHANGED offLifecycle
    \/ \E tx_id \in CallTxIds, v \in 0..MaxVersion, actor_id \in Riders \cup { "" } :
         process_transition_assigned(tx_id, v, actor_id) /\ UNCHANGED offAssign
    \/ \E db_ok \in BOOLEAN : handle_rider_assigned_assign(db_ok) /\ UNCHANGED offAssign
    \/ \E db_ok \in BOOLEAN : handle_rider_assigned_update(db_ok) /\ UNCHANGED offAssign

SpecAssign == AssignInit /\ [][AssignNext]_vars

\* C38 (failed transitions write nothing), for the ASSIGNED transition: when
\* process_transition to ASSIGNED has returned the failure of a version
\* conflict detected by the repository update, no rider assignment is
\* persisted for the row.
C38_FailedTransitionsWriteNothing ==
    ( ha.pc = "done" /\ ~ha.ok /\ ha.error = "Version conflict" )
    => rider_ids[ha.tx_id] = ""

(***************************************************************************)
(* SpecMutex: with_idempotency statement by statement, with cache_mutex_.   *)
(* Each locked block is two steps: the lock is taken, then the block runs   *)
(* and its scope ends. The repository call of check and the creator are     *)
(* steps of their own.                                                      *)
(***************************************************************************)
MutexFree == cache_mutex_.shared = {} /\ cache_mutex_.unique = None

\* check whose shared_lock lives to the end of the function.
check_scope_end_held(m, w) == m

\* The closing brace of check's hot-path block: the shared_lock is released.
check_scope_end(m, w) == [ m EXCEPT !.shared = @ \ { w } ]

\* A drainer worker calls with_idempotency(guard, key, create_func).
mutex_call(w, payload) ==
    /\ gw[w].pc \in { "idle", "done" }
    /\ gw' = [ gw EXCEPT ![w] = [ IdleWorker EXCEPT !.pc = "check_lock",
                                                    !.payload = payload ] ]
    /\ UNCHANGED << cache_, reservations_, now, repo, cache_mutex_ >>

\* check: std::shared_lock lock(cache_mutex_).
check_shared_lock(w) ==
    /\ gw[w].pc = "check_lock"
    /\ cache_mutex_.unique = None
    /\ cache_mutex_' = [ cache_mutex_ EXCEPT !.shared = @ \cup { w } ]
    /\ gw' = [ gw EXCEPT ![w].pc = "check_find" ]
    /\ UNCHANGED << cache_, reservations_, now, repo >>

\* check: the cache lookup; a fresh entry is returned, otherwise the block ends.
check_hot_path(w) ==
    /\ gw[w].pc = "check_find"
    /\ IF cache_hit(KeyOf(w))
       THEN /\ gw' = [ gw EXCEPT ![w].pc = "done",
                                 ![w].ret = GuardRet(TRUE, "", cache_[KeyOf(w)].tx_id) ]
            /\ cache_mutex_' = [ cache_mutex_ EXCEPT !.shared = @ \ { w } ]
       ELSE /\ gw' = [ gw EXCEPT ![w].pc = "check_db" ]
            /\ cache_mutex_' = check_scope_end(cache_mutex_, w)
    /\ UNCHANGED << cache_, reservations_, now, repo >>

\* check: gift_repo_->find_by_idempotency_key(key), then the returns.
check_cold_path(w, db_ok) ==
    /\ gw[w].pc = "check_db"
    /\ gw' = IF ~db_ok
             THEN [ gw EXCEPT ![w].pc = "done",
                              ![w].ret = GuardRet(FALSE, "Database error", None) ]
             ELSE IF find_by_idempotency_key(KeyOf(w)) # None
             THEN [ gw EXCEPT ![w].pc = "check_cache",
                              ![w].ret = GuardRet(TRUE, "",
                                                  find_by_idempotency_key(KeyOf(w))) ]
             ELSE [ gw EXCEPT ![w].pc = "reserve_lock" ]
    /\ UNCHANGED << cache_, reservations_, now, repo, cache_mutex_ >>

\* check: cache_transaction(key, tx) with no lock; while another worker holds
\* the mutex the write may be lost or the entry dropped.
check_cache_transaction(w) ==
    /\ gw[w].pc = "check_cache"
    /\ cache_' \in
         { cache_transaction(cache_, KeyOf(w), gw[w].ret.tx_id) }
         \cup ( IF MutexFree THEN {} ELSE { cache_, [ cache_ EXCEPT ![KeyOf(w)] = NoEntry ] } )
    /\ gw' = [ gw EXCEPT ![w].pc = "done" ]
    /\ UNCHANGED << reservations_, now, repo, cache_mutex_ >>

\* reserve, commit, release: std::unique_lock lock(cache_mutex_).
unique_lock(w) ==
    /\ gw[w].pc \in { "reserve_lock", "commit_lock", "release_lock" }
    /\ MutexFree
    /\ cache_mutex_' = [ cache_mutex_ EXCEPT !.unique = w ]
    /\ gw' = [ gw EXCEPT ![w].pc = IF gw[w].pc = "reserve_lock" THEN "reserve_body"
                                   ELSE IF gw[w].pc = "commit_lock" THEN "commit_body"
                                   ELSE "release_body" ]
    /\ UNCHANGED << cache_, reservations_, now, repo >>

\* reserve under the lock, to its return.
reserve_body(w) ==
    /\ gw[w].pc = "reserve_body"
    /\ IF reserve_fails(KeyOf(w))
       THEN /\ gw' = [ gw EXCEPT ![w].pc = "done",
                                 ![w].ret = GuardRet(FALSE, "Key already reserved", None) ]
            /\ UNCHANGED reservations_
       ELSE /\ gw' = [ gw EXCEPT ![w].pc = "create" ]
            /\ reservations_' = reserve(KeyOf(w))
    /\ cache_mutex_' = [ cache_mutex_ EXCEPT !.unique = None ]
    /\ UNCHANGED << cache_, now, repo >>

\* with_idempotency: create_func().
create_func(w, outcome) ==
    /\ gw[w].pc = "create"
    /\ repo' = IF outcome = "insert" THEN repo_insert(gw[w].payload) ELSE repo
    /\ gw' = IF outcome = "insert" /\ repo' # repo
             THEN [ gw EXCEPT ![w].pc = "commit_lock",
                              ![w].ret = GuardRet(TRUE, "", gw[w].payload.tx_id) ]
             ELSE [ gw EXCEPT ![w].pc = "release_lock",
                              ![w].ret = GuardRet(FALSE,
                                                  IF outcome = "insert" THEN "duplicate key"
                                                  ELSE outcome, None) ]
    /\ UNCHANGED << cache_, reservations_, now, cache_mutex_ >>

\* commit under the lock: erase the reservation, cache the transaction.
commit_body(w) ==
    /\ gw[w].pc = "commit_body"
    /\ reservations_' = release(KeyOf(w))
    /\ cache_' = cache_transaction(cache_, KeyOf(w), gw[w].ret.tx_id)
    /\ cache_mutex_' = [ cache_mutex_ EXCEPT !.unique = None ]
    /\ gw' = [ gw EXCEPT ![w].pc = "done", ![w].committed_at = now.s ]
    /\ UNCHANGED << now, repo >>

\* release under the lock (the ReservationGuard's destructor).
release_body(w) ==
    /\ gw[w].pc = "release_body"
    /\ reservations_' = release(KeyOf(w))
    /\ cache_mutex_' = [ cache_mutex_ EXCEPT !.unique = None ]
    /\ gw' = [ gw EXCEPT ![w].pc = "done" ]
    /\ UNCHANGED << cache_, now, repo >>

MutexInit ==
    /\ LifecycleIdle /\ WatchIdle /\ SMIdle /\ GuardIdle /\ DrainIdle /\ ClockIdle
    /\ PayIdle /\ TokenIdle /\ RunIdle /\ SearchIdle /\ LockIdle /\ MutexIdle /\ AssignIdle

offMutex == << lifecycleVars, watchVars, smVars, drainVars, clockVars, payVars, tokenVars, runVars, searchVars, lockVars, assignVars >>

MutexNext ==
    \/ \E w \in Drainers, p \in Payloads : mutex_call(w, p) /\ UNCHANGED offMutex
    \/ \E w \in Drainers : check_shared_lock(w) /\ UNCHANGED offMutex
    \/ \E w \in Drainers : check_hot_path(w) /\ UNCHANGED offMutex
    \/ \E w \in Drainers, db_ok \in BOOLEAN : check_cold_path(w, db_ok) /\ UNCHANGED offMutex
    \/ \E w \in Drainers : check_cache_transaction(w) /\ UNCHANGED offMutex
    \/ \E w \in Drainers : unique_lock(w) /\ UNCHANGED offMutex
    \/ \E w \in Drainers : reserve_body(w) /\ UNCHANGED offMutex
    \/ \E w \in Drainers, outcome \in CreateOutcomes :
         create_func(w, outcome) /\ UNCHANGED offMutex
    \/ \E w \in Drainers : commit_body(w) /\ UNCHANGED offMutex
    \/ \E w \in Drainers : release_body(w) /\ UNCHANGED offMutex

SpecMutex == MutexInit /\ [][MutexNext]_vars

\* Worker w holds cache_mutex_, shared or exclusive.
HoldsMutex(w) == w \in cache_mutex_.shared \/ cache_mutex_.unique = w

\* C36 (no lock across suspension): no worker holds the cache mutex while its
\* repository call (find_by_idempotency_key in check) or its creator is
\* running: the shared lock of check is released before the repository is
\* asked, and the creator runs with the mutex free of its caller.
C36_NoLockAcrossSuspension ==
    \A w \in Drainers :
        gw[w].pc \in { "check_db", "create" } => ~HoldsMutex(w)

\* One worker is in its creator and the other in check's repository call,
\* after the first took and gave back the exclusive lock in reserve.
C36_Witness ==
    \E w, o \in Drainers :
        /\ gw[w].pc = "create"
        /\ reservations_[KeyOf(w)] # NotReserved
        /\ gw[o].pc = "check_db"
        /\ MutexFree

(***************************************************************************)
(* SpecSearch: find_alternative over Shops tables. The declining shop S1    *)
(* is itself the best shop of the category; each other shop is eligible     *)
(* (three distances, 5.0 km among them, two scores) or fails one condition  *)
(* of the WHERE clause. The table of the fixture is one of the tables.      *)
(***************************************************************************)
SearchShopRows ==
    { ShopRow("flowers", "approved", TRUE, d, sc) : d \in { 12, 34, 50 }, sc \in { 90, 95 } }
    \cup { ShopRow("cakes", "approved", TRUE, 12, 100),
           ShopRow("flowers", "pending", TRUE, 12, 100),
           ShopRow("flowers", "approved", FALSE, 12, 100),
           ShopRow("flowers", "approved", TRUE, 51, 100) }

SearchTables ==
    { ( "S1" :> ShopRow("flowers", "approved", TRUE, 10, 100) ) @@ t :
        t \in [ { "S2", "S3", "S4" } -> SearchShopRows ] }
    \cup { Shops }

\* The declined order the search is run for.
SearchOrder ==
    [ tx_id |-> "T1", shop_id |-> "S1", category_id |-> "flowers",
      status_code |-> DECLINED, auto_reroute |-> TRUE ]

\* rerouter_.find_alternative(order, original_distance).
find_alternative_call(db_ok) ==
    /\ ~search.done
    /\ \E result \in find_alternative(shop_table, search.order, OriginalDistanceKm10, db_ok) :
         search' = [ search EXCEPT !.done = TRUE, !.db_ok = db_ok, !.result = result ]
    /\ UNCHANGED shop_table

SearchInit ==
    /\ shop_table \in SearchTables
    /\ search = [ order |-> SearchOrder, done |-> FALSE, db_ok |-> FALSE, result |-> NotFound ]
    /\ LifecycleIdle /\ WatchIdle /\ SMIdle /\ GuardIdle /\ DrainIdle /\ ClockIdle
    /\ PayIdle /\ TokenIdle /\ RunIdle /\ LockIdle /\ MutexIdle /\ AssignIdle

offSearch == << lifecycleVars, watchVars, smVars, guardVars, drainVars, clockVars, payVars, tokenVars, runVars, lockVars, mutexVars, assignVars >>

SearchNext ==
    \E db_ok \in BOOLEAN : find_alternative_call(db_ok) /\ UNCHANGED offSearch

SpecSearch == SearchInit /\ [][SearchNext]_vars

\* The shops the claim calls eligible for the order of the search.
EligibleShops ==
    { s \in DOMAIN shop_table :
        /\ shop_table[s].category_id = search.order.category_id
        /\ shop_table[s].admin_approval_status = "approved"
        /\ shop_table[s].is_verified
        /\ s # search.order.shop_id
        /\ shop_table[s].distance_km10 <= 50 }

\* C28 (re-route selection): the shop find_alternative returns is, among the
\* shops in the order's category that are approved, verified, not the
\* declining shop and within 5 km of the recipient, one of the highest
\* performance_score and, among those, of the smallest distance; when there
\* is no such shop the result is 'not found'; for the fixture (S2 1.2 km 0.9,
\* S3 3.4 km 0.95, S4 6.1 km 1.0) the choice is S3.
C28_RerouteSelection ==
    search.done
    => /\ search.result.found
          => /\ search.result.alternative_shop_id \in EligibleShops
             /\ \A o \in EligibleShops :
                  LET s == search.result.alternative_shop_id
                  IN \/ shop_table[s].performance_score > shop_table[o].performance_score
                     \/ /\ shop_table[s].performance_score = shop_table[o].performance_score
                        /\ shop_table[s].distance_km10 <= shop_table[o].distance_km10
       /\ EligibleShops = {} => ~search.result.found
       /\ (search.db_ok /\ EligibleShops # {}) => search.result.found
       /\ (search.result.found /\ shop_table = Shops)
          => search.result.alternative_shop_id = "S3"

\* The search has chosen between two eligible shops of the same score by
\* distance, passing over a nearer shop of lower score.
C28_Witness ==
    /\ search.done /\ search.result.found
    /\ \E o \in EligibleShops :
         /\ o # search.result.alternative_shop_id
         /\ shop_table[o].performance_score
              = shop_table[search.result.alternative_shop_id].performance_score
         /\ shop_table[o].distance_km10
              > shop_table[search.result.alternative_shop_id].distance_km10
    /\ \E o \in EligibleShops :
         /\ shop_table[o].performance_score
              < shop_table[search.result.alternative_shop_id].performance_score
         /\ shop_table[o].distance_km10
              < shop_table[search.result.alternative_shop_id].distance_km10

(***************************************************************************)
(* Claims checked under Spec.                                              *)
(***************************************************************************)
\* C40 (Baker accept and decline): shop_accepts and shop_declines change a
\* row only when the shop_id given is the transaction's shop; with a wrong
\* shop_id the row is unchanged and the call does not report success.
C40_BakerWrongShop ==
    [][ ( /\ last'.op \in { "shop_accepts", "shop_declines" }
          /\ last'.tx \in DOMAIN gifts
          /\ last'.arg # gifts[last'.tx].shop_id )
        => ( gifts' = gifts /\ ~last'.ok ) ]_vars

\* C33 (initial status): when handle_new_order has run for a newly created
\* transaction (a row as inserted, at 100 or 150, version 0), the row is at
\* 110 if its SKU is made to order and still at its inserted status
\* otherwise; a made-to-order transaction does not remain at 100.
C33_InitialStatus ==
    [][ \A t \in TxIds, sku \in Skus :
          ( /\ last' = Ret("handle_new_order", t, sku, TRUE, "")
            /\ gifts[t].status_code \in { INITIATED, AGENT_INITIATED }
            /\ gifts[t].version = 0 )
          => gifts'[t].status_code
               = IF sku \in DOMAIN Products /\ Products[sku]
                 THEN AWAITING_SHOP_ACCEPTANCE
                 ELSE gifts[t].status_code ]_vars

\* C3 (fiscal interlock): in every reachable state, every row whose status is
\* 400 (COMPLETED) got a completion call whose ZRA result code was 000 or 001;
\* no sequence of operations puts a row at 400 otherwise.
C3_FiscalInterlock ==
    \A t \in TxIds : gifts[t].status_code = COMPLETED => fiscal_ok[t]

\* C4 (fiscal failure): complete_delivery on a row at 350 with a result code
\* other than 000 and 001 returns failure and moves the row to 800 (it stays at
\* 350 only if the database update fails), and a row so held never
\* subsequently becomes 400.
C4_FiscalFailure ==
    [][ \A t \in TxIds :
          /\ ( /\ last'.op = "complete_delivery" /\ last'.tx = t
               /\ ~can_complete_delivery(t, last'.arg)
               /\ gifts[t].status_code = KEY_VERIFIED )
             => ( /\ ~last'.ok
                  /\ gifts'[t].status_code \in { HELD_FOR_REVIEW, KEY_VERIFIED } )
          /\ fiscal_held'[t] => gifts'[t].status_code # COMPLETED ]_vars

\* C5 (only allowed transitions): every change of a row's persisted
\* status_code, by any operation, is one of the pairs of the allowed-transition
\* table; any other requested change leaves the status unchanged.
C5_OnlyAllowedTransitions ==
    [][ \A t \in TxIds :
          gifts'[t].status_code # gifts[t].status_code
          => is_valid_transition(gifts[t].status_code, gifts'[t].status_code) ]_vars

\* C6 (terminal states are absorbing): once a row's status is 400, 800 or 900,
\* no later operation changes its status.
C6_TerminalAbsorbing ==
    [][ \A t \in TxIds :
          gifts[t].status_code \in TerminalStatuses
          => gifts'[t].status_code = gifts[t].status_code ]_vars

\* C7 (monotone status): the sequence of persisted status_code values of a row
\* never decreases, except for a move into the administrative 900 sink.
C7_MonotoneStatus ==
    [][ \A t \in TxIds :
          \/ gifts'[t].status_code >= gifts[t].status_code
          \/ gifts'[t].status_code = EXPIRED ]_vars

\* C8 (version strictly increases): every operation that changes a row
\* increases its version by one; no operation changes the row while leaving
\* the version unchanged, and none decreases it.
C8_VersionIncreases ==
    [][ \A t \in TxIds :
          /\ gifts'[t] # gifts[t] => gifts'[t].version = gifts[t].version + 1
          /\ gifts'[t].version >= gifts[t].version ]_vars

(***************************************************************************)
(* SpecPay: the acquirer's payment webhook, delivered any number of times,  *)
(* among the other handlers of the row.                                     *)
(***************************************************************************)
\* One delivery of the payment webhook; acks counts the deliveries answered
\* with success.
payment_webhook(tx_id, ref, db_ok) ==
    /\ acks[ref] < MaxAcks
    /\ on_stripe_webhook_payment_confirmed(tx_id, ref, db_ok)
    /\ acks' = [ acks EXCEPT ![ref] = IF update_status_ok(tx_id, db_ok) THEN @ + 1 ELSE @ ]

offPay == << watchVars, smVars, guardVars, drainVars, clockVars, tokenVars, runVars, searchVars, lockVars, mutexVars, assignVars >>

PayInit == Init

PayNext ==
    \/ \E tx_id \in CallTxIds, ref \in PaymentRefs, db_ok \in BOOLEAN :
         payment_webhook(tx_id, ref, db_ok) /\ UNCHANGED offPay
    \/ \E tx_id \in TxIds, db_ok \in BOOLEAN :
         /\ on_flutterwave_webhook_account_verified(tx_id, gifts[tx_id].shop_id, db_ok)
         /\ UNCHANGED << offPay, acks >>
    \/ \E tx_id \in TxIds, provided \in Tokens, expected \in Tokens, db_ok \in BOOLEAN :
         verify_collection_token(tx_id, provided, expected, db_ok)
         /\ UNCHANGED << offPay, acks >>

SpecPay == PayInit /\ [][PayNext]_vars

\* C16 (payment-reference gate): the payment webhook moves a row to 200 only
\* for a payment reference not seen before and only from 100, 150 or 110;
\* a replay of the same webhook does not succeed again and does not change
\* the row.
C16_PaymentReferenceGate ==
    [][ (last'.op = "on_stripe_webhook_payment_confirmed" /\ last'.ok /\ acks' # acks) =>
          /\ acks[last'.arg] = 0
          /\ gifts[last'.tx].status_code
                \in { INITIATED, AGENT_INITIATED, AWAITING_SHOP_ACCEPTANCE } ]_vars

(***************************************************************************)
(* SpecToken: generate_handshake_token, one character at a time.            *)
(***************************************************************************)
\* The letters and digits in order, confusing characters included.
charset_unfiltered ==
    << "A", "B", "C", "D", "E", "F", "G", "H", "I", "J", "K", "L", "M", "N", "O", "P",
       "Q", "R", "S", "T", "U", "V", "W", "X", "Y", "Z", "0", "1", "2", "3", "4", "5" >>

\* The character set: no O, 0, I, 1.
charset ==
    << "A", "B", "C", "D", "E", "F", "G", "H", "J", "K", "L", "M", "N", "P", "Q", "R",
       "S", "T", "U", "V", "W", "X", "Y", "Z", "2", "3", "4", "5", "6", "7", "8", "9" >>

\* uniform_int_distribution<> dist(0, charset.size() - 1)
DistRange == 0 .. (Len(charset) - 1)
\* The values of dist(gen) the model draws: both ends of the range, and the
\* places where a confusing character would have stood.
Draws == { 0, 8, 24, 31 }

\* std::string token; token.reserve(9);
generate_handshake_token_call ==
    /\ hs.pc \in { "idle", "done" }
    /\ hs' = [ pc |-> "first", token |-> << >> ]

\* token += charset[dist(gen)], in the first or the second loop.
generate_handshake_token_char(d) ==
    /\ hs.pc \in { "first", "second" }
    /\ hs' = [ pc |-> IF hs.pc = "first"
                      THEN (IF Len(hs.token) + 1 = 4 THEN "hyphen" ELSE "first")
                      ELSE (IF Len(hs.token) + 1 = 9 THEN "done" ELSE "second"),
               token |-> Append(hs.token, charset[d + 1]) ]

\* token += "-"
generate_handshake_token_hyphen ==
    /\ hs.pc = "hyphen"
    /\ hs' = [ pc |-> "second", token |-> Append(hs.token, "-") ]

TokenInit == LifecycleIdle /\ WatchIdle /\ SMIdle /\ GuardIdle /\ DrainIdle /\ ClockIdle /\ PayIdle /\ TokenIdle /\ RunIdle /\ SearchIdle /\ LockIdle /\ MutexIdle /\ AssignIdle

offToken == << lifecycleVars, watchVars, smVars, guardVars, drainVars, clockVars, payVars, runVars, searchVars, lockVars, mutexVars, assignVars >>

TokenNext ==
    \/ generate_handshake_token_call /\ UNCHANGED offToken
    \/ \E d \in Draws : generate_handshake_token_char(d) /\ UNCHANGED offToken
    \/ generate_handshake_token_hyphen /\ UNCHANGED offToken

SpecToken == TokenInit /\ [][TokenNext]_vars

\* The 32-character alphabet of the token.
Alphabet ==
    { "A", "B", "C", "D", "E", "F", "G", "H", "J", "K", "L", "M", "N", "P", "Q", "R",
      "S", "T", "U", "V", "W", "X", "Y", "Z", "2", "3", "4", "5", "6", "7", "8", "9" }

\* C18 (handshake token format): every token generate_handshake_token returns
\* has exactly 9 characters, the 5th is "-", and each of the other 8 is a member
\* of the 32-character alphabet, so none of them is O, 0, I or 1; every value
\* the distribution can draw indexes such a character.
C18_TokenFormat ==
    /\ Draws \subseteq DistRange
    /\ \A d \in DistRange : charset[d + 1] \in Alphabet
    /\ Cardinality(Alphabet) = 32
    /\ Alphabet \cap { "O", "0", "I", "1" } = {}
    /\ hs.pc = "done" =>
         /\ Len(hs.token) = 9
         /\ hs.token[5] = "-"
         /\ \A i \in (1..9) \ { 5 } : hs.token[i] \in Alphabet

\* A returned token whose characters come from both ends of the character set.
C18_Witness ==
    /\ hs.pc = "done"
    /\ hs.token[1] = "J"
    /\ hs.token[4] = "A"
    /\ hs.token[9] = "9"

\* C14 (collection-token gate): verify_collection_token moves a row to 350
\* only from 300, 305 or 315 and only when the provided token equals the
\* expected one; on a mismatch it returns failure and the row is unchanged.
C14_CollectionTokenGate ==
    [][ last'.op = "verify_collection_token" =>
          /\ last'.ok =>
                /\ gifts[last'.tx].status_code
                      \in { FULFILLING, FORCE_CALL_PENDING, REROUTING }
                /\ last'.arg[1] = last'.arg[2]
          /\ last'.arg[1] # last'.arg[2] => (~last'.ok /\ gifts' = gifts) ]_vars

\* C15 (payout gate): the payout-account webhook moves a row to 250 only when
\* its status is exactly 200; on any other status the handler fails and leaves
\* the status unchanged.
C15_PayoutGate ==
    [][ (last'.op = "on_flutterwave_webhook_account_verified"
          /\ gifts[last'.tx].status_code # FUNDS_LOCKED)
        => (~last'.ok /\ gifts'[last'.tx].status_code = gifts[last'.tx].status_code) ]_vars

====
